---- MODULE Spec2Model ----
(***************************************************************************)
(* Model of the LoL match scraper's crawl engine:                          *)
(*   - the process-wide API key status (scraper/api-status.ts),            *)
(*   - the rate-limited, retrying API client (scraper/riot-api.ts),        *)
(*   - the per-region scraper worker (scraper/worker.ts) writing through   *)
(*     the SQLite queries (db/queries.ts, db/schema.ts).                   *)
(*                                                                         *)
(* JavaScript runs one continuation at a time: the code between two        *)
(* awaits is one atomic action here, and every await (a timer, a network   *)
(* call) is a point where the other workers and the health check may run.  *)
(* Time is the integer variable clock, read by Date.now() / new Date().    *)
(* A pending setTimeout(f, d) is the number of ms left on it, which the    *)
(* passing of time decreases: f may run once none is left.                 *)
(***************************************************************************)
EXTENDS Integers, Sequences, FiniteSets, TLC

(***************************************************************************)
(* Bounds of the model.  The rate-limit configuration, the second, the     *)
(* page sizes and the oldest timestamp taken for valid are the program's   *)
(* parameters instantiated with small values (the code has 20 per 1000 ms, *)
(* 100 per 120000 ms, margins of 50 and 100 ms, 1000 ms per second, a      *)
(* default retry-after of 5 s, pages of 100 identifiers, 1000 pages per    *)
(* division and 1623801600); the code is parametric in them.               *)
(***************************************************************************)
MaxClock == 9
MaxClockClients == 2
MaxClockShared == 6
burstLimit == 2
burstWindowMs == 2
sustainedLimit == 3
sustainedWindowMs == 5
burstMarginMs == 1
sustainedMarginMs == 1
SecondMs == 1
retryAfterDefault == 2
matchHistoryCount == 2
playerPagesPerDivision == 2
minTimestamp == 2

\* request(url, retries = 3)
retries == 3

\* null for a Date or a number
NoDate == -1

Workers == {"na1", "euw1"}
\* workers[0], whose client the health check probes with
FirstWorker == "na1"
HealthCheck == "healthcheck"
Callers == Workers \cup {HealthCheck}

\* The RiotApi instance a caller uses: each worker its own, the health
\* check workers[0].getApi().
Client(p) == IF p = HealthCheck THEN FirstWorker ELSE p

\* HTTP outcomes of client.get: a status, or 0 for an error without a
\* response (network error, timeout).
NetworkError == 0
Statuses == {200, 401, 403, 404, 429, 500, NetworkError}
\* the retry-after header of a 429: absent (0) or a number of seconds
NoHeader == 0
RetryAfterHeaders == {NoHeader, 1}

\* err.response?.status before any response
NoStatus == -1

NoUrl == [op |-> "none", key |-> "", start |-> 0, count |-> 0, startTime |-> NoDate]
DetailsUrl(matchId) ==
    [op |-> "details", key |-> matchId, start |-> 0, count |-> 0, startTime |-> NoDate]
HistoryUrl(puuid, start, count, startTime) ==
    [op |-> "history", key |-> puuid, start |-> start, count |-> count, startTime |-> startTime]
EntriesUrl(division, page) ==
    [op |-> "entries", key |-> division, start |-> page, count |-> 0, startTime |-> NoDate]
StatusUrl == [op |-> "status", key |-> "", start |-> 0, count |-> 0, startTime |-> NoDate]

VARIABLES
    clock,                \* Date.now()
    apiKeyValid,          \* api-status.ts: apiKeyValid
    apiKeyInvalidSince,   \* api-status.ts: apiKeyInvalidSince
    requestTimestamps,    \* RiotApi.requestTimestamps, per client
    rq,                   \* per caller: where its request()/testApiKey() call stands
    targetPatchConfig,    \* config.targetPatch (TARGET_PATCH, or 'auto')
    matches,              \* table matches
    players,              \* table players
    scrape_state,         \* table scrape_state
    wk,                   \* per region: the ScraperWorker and where its start() stands
    fetched,              \* history: per worker, the pages of its current round
    saveCalls,            \* history: per match id, the number of calls of saveMatch
    journal,              \* history: per worker, what its bootstrap, patch targeting
                          \* and rounds did
    observed,             \* the caller whose history is kept, "none" for no history
    responses,            \* history: the statuses the observed caller's current call received
    recorded              \* history: every timestamp the observed client's rateLimit() pushed

apiVars == <<clock, apiKeyValid, apiKeyInvalidSince, requestTimestamps, rq>>
scraperVars ==
    <<targetPatchConfig, matches, players, scrape_state, wk, fetched, saveCalls, journal>>
historyVars == <<observed, responses, recorded>>
vars == <<clock, apiKeyValid, apiKeyInvalidSince, requestTimestamps, rq,
          targetPatchConfig, matches, players, scrape_state, wk, fetched, saveCalls, journal,
          observed, responses, recorded>>

\* The single sequential caller whose calls are followed in SpecOneClient.
Observed == "euw1"

\* The histories of the observed caller: the statuses its call has received
\* so far, and the timestamps rateLimit() has pushed for it.
Observe ==
    /\ observed' = observed
    /\ IF observed = "none"
         THEN UNCHANGED <<responses, recorded>>
         ELSE /\ responses' =
                   IF rq[observed].pc = "net" /\ rq'[observed].status # NoStatus
                        /\ (rq'[observed].pc # "net" \/ rq'[observed].attempt # rq[observed].attempt)
                     THEN Append(responses, rq'[observed].status)
                   ELSE IF rq'[observed].pc = "idle" THEN <<>>
                   ELSE responses
              /\ recorded' =
                   IF rq[observed].pc \in {"idle", "rl_sustained", "rl_burst"}
                        /\ rq'[observed].pc = "net"
                     THEN Append(recorded,
                             requestTimestamps'[observed][Len(requestTimestamps'[observed])])
                     ELSE recorded

(***************************************************************************)
(* api-status.ts                                                           *)
(***************************************************************************)
isApiKeyValid == apiKeyValid

getApiKeyStatus == [valid |-> apiKeyValid, invalidSince |-> apiKeyInvalidSince]

\* markApiKeyInvalid without its (apiKeyValid) test
markApiKeyInvalid_unguarded(s, now) == [valid |-> FALSE, invalidSince |-> now]

markApiKeyInvalid(s, now) ==
    IF s.valid THEN [valid |-> FALSE, invalidSince |-> now] ELSE s

markApiKeyValid(s) ==
    IF ~s.valid THEN [valid |-> TRUE, invalidSince |-> NoDate] ELSE s

SetApiKeyStatus(s) ==
    /\ apiKeyValid' = s.valid
    /\ apiKeyInvalidSince' = s.invalidSince

(***************************************************************************)
(* RiotApi.rateLimit                                                       *)
(***************************************************************************)
\* timestamps.filter((ts) => now - ts < window)
Within(ts, now, window) == SelectSeq(ts, LAMBDA t : now - t < window)

\* the sustained check with > for >=
SustainedWaitTime_offByOne(ts, now) ==
    IF Len(ts) > sustainedLimit
      THEN LET waitTime == sustainedWindowMs - (now - ts[1]) + sustainedMarginMs
           IN IF waitTime > 0 THEN waitTime ELSE 0
      ELSE 0

\* The sleep of the sustained check (0: no sleep), on the pruned history.
SustainedWaitTime(ts, now) ==
    IF Len(ts) >= sustainedLimit
      THEN LET waitTime == sustainedWindowMs - (now - ts[1]) + sustainedMarginMs
           IN IF waitTime > 0 THEN waitTime ELSE 0
      ELSE 0

\* the burst check with > for >=
BurstWaitTime_offByOne(ts, now) ==
    LET recentRequests == Within(ts, now, burstWindowMs)
    IN IF Len(recentRequests) > burstLimit
         THEN LET waitTime == burstWindowMs - (now - recentRequests[1]) + burstMarginMs
              IN IF waitTime > 0 THEN waitTime ELSE 0
         ELSE 0

\* The sleep of the burst check (0: no sleep).
BurstWaitTime(ts, now) ==
    LET recentRequests == Within(ts, now, burstWindowMs)
    IN IF Len(recentRequests) >= burstLimit
         THEN LET waitTime == burstWindowMs - (now - recentRequests[1]) + burstMarginMs
              IN IF waitTime > 0 THEN waitTime ELSE 0
         ELSE 0

\* The burst check and what follows it, run at time t with the `now` that
\* was read on entry: either a sleep, or the push of Date.now().
rateLimitBurst(ts, now, t) ==
    LET bw == BurstWaitTime(ts, now)
    IN IF bw > 0
         THEN [ts |-> ts, pc |-> "rl_burst", wait |-> bw]
         ELSE [ts |-> Append(ts, t), pc |-> "net", wait |-> 0]

\* rateLimit() from its entry at time now to its first sleep, or to its end.
rateLimitEntry(ts, now) ==
    LET pruned == Within(ts, now, sustainedWindowMs)
        sw == SustainedWaitTime(pruned, now)
    IN IF sw > 0
         THEN [ts |-> pruned, pc |-> "rl_sustained", wait |-> sw]
         ELSE rateLimitBurst(pruned, now, now)

(***************************************************************************)
(* RiotApi.request and RiotApi.testApiKey                                  *)
(*   rq[p].pc: "idle"          no call                                     *)
(*             "rl_sustained"  rateLimit sleeps on the sustained window    *)
(*             "rl_burst"      rateLimit sleeps on the burst window        *)
(*             "net"           client.get is in flight                     *)
(*             "sleep429"      sleeps the retry-after of a 429             *)
(*             "backoff"       sleeps between two attempts                 *)
(*             "done"          returned (result "data", "null", "true",    *)
(*                             "false") or threw ApiKeyInvalidError        *)
(*                             (result "throw")                            *)
(*   rq[p].now is the now of rateLimit, rq[p].wait what is left of the     *)
(*   delay given to setTimeout, and rq[p].status the status of the last    *)
(*   response.                                                             *)
(***************************************************************************)
IdleRq ==
    [pc |-> "idle", fn |-> "none", url |-> NoUrl, attempt |-> 0,
     now |-> 0, wait |-> 0, status |-> NoStatus, result |-> "none"]

\* classify with 403 taken for an invalid key, like 401
classify_403Invalid(status) ==
    IF status = 200 THEN "success"
    ELSE IF status = 401 \/ status = 403 THEN "apiKeyInvalid"
    ELSE IF status = 429 THEN "rateLimited"
    ELSE IF status = 404 THEN "notFound"
    ELSE "retry"

\* The branch request() takes on the outcome of client.get.
classify(status) ==
    IF status = 200 THEN "success"
    ELSE IF status = 401 THEN "apiKeyInvalid"
    ELSE IF status = 403 THEN "forbidden"
    ELSE IF status = 429 THEN "rateLimited"
    ELSE IF status = 404 THEN "notFound"
    ELSE "retry"

\* parseInt(headers['retry-after'] || '5', 10) * 1000
retryAfterMs(header) ==
    (IF header = NoHeader THEN retryAfterDefault ELSE header) * SecondMs

\* a backoff that does not grow with the attempt
backoffMs_constant(attempt) ==
    IF attempt < retries - 1 THEN SecondMs ELSE 0

\* 1000 * (attempt + 1), slept only if (attempt < retries - 1)
backoffMs(attempt) ==
    IF attempt < retries - 1 THEN SecondMs * (attempt + 1) ELSE 0

\* The call is over (its locals are gone).
Finished(r, result) ==
    [r EXCEPT !.pc = "done", !.attempt = 0, !.wait = 0, !.result = result]

\* The for loop's attempt++ and its test: the next client.get, or the
\* return null after the loop.
nextAttempt(r) ==
    IF r.attempt + 1 < retries
      THEN [r EXCEPT !.pc = "net", !.attempt = r.attempt + 1, !.wait = 0]
      ELSE Finished(r, "null")

\* p calls request(url) (fn = "request") or testApiKey() (fn = "testApiKey"):
\* the credential check of request, then rateLimit up to its first sleep.
StartCall(p, fn, url) ==
    /\ rq[p].pc = "idle"
    /\ IF fn = "request" /\ ~isApiKeyValid
         THEN /\ rq' = [rq EXCEPT ![p] = [IdleRq EXCEPT !.pc = "done", !.fn = fn,
                                                       !.url = url, !.result = "throw"]]
              /\ UNCHANGED requestTimestamps
         ELSE LET c == Client(p)
                  r == rateLimitEntry(requestTimestamps[c], clock)
              IN /\ requestTimestamps' = [requestTimestamps EXCEPT ![c] = r.ts]
                 /\ rq' = [rq EXCEPT ![p] =
                             [IdleRq EXCEPT !.pc = r.pc, !.fn = fn, !.url = url,
                                            !.now = IF r.pc = "net" THEN 0 ELSE clock,
                                            !.wait = r.wait]]
    /\ UNCHANGED <<clock, apiKeyValid, apiKeyInvalidSince>>
    /\ UNCHANGED scraperVars
    /\ Observe

\* The sustained sleep of rateLimit is over: the burst check, with the now
\* read on entry, on the history as it is at this moment.
RateLimitAfterSustained(p) ==
    /\ rq[p].pc = "rl_sustained"
    /\ rq[p].wait = 0
    /\ LET c == Client(p)
           r == rateLimitBurst(requestTimestamps[c], rq[p].now, clock)
       IN /\ requestTimestamps' = [requestTimestamps EXCEPT ![c] = r.ts]
          /\ rq' = [rq EXCEPT ![p].pc = r.pc,
                              ![p].now = IF r.pc = "net" THEN 0 ELSE @,
                              ![p].wait = r.wait]
    /\ UNCHANGED <<clock, apiKeyValid, apiKeyInvalidSince>>
    /\ UNCHANGED scraperVars
    /\ Observe

\* The burst sleep of rateLimit is over: push Date.now(), then client.get.
RateLimitAfterBurst(p) ==
    /\ rq[p].pc = "rl_burst"
    /\ rq[p].wait = 0
    /\ requestTimestamps' = [requestTimestamps EXCEPT ![Client(p)] = Append(@, clock)]
    /\ rq' = [rq EXCEPT ![p].pc = "net", ![p].now = 0]
    /\ UNCHANGED <<clock, apiKeyValid, apiKeyInvalidSince>>
    /\ UNCHANGED scraperVars
    /\ Observe

\* What request() does when client.get settles with this status.
requestOutcome(r0, status, header) ==
    LET c == classify(status)
        r == [r0 EXCEPT !.status = status]
    IN IF c = "success" THEN Finished(r, "data")
       ELSE IF c = "apiKeyInvalid" THEN Finished(r, "throw")
       ELSE IF c = "forbidden" THEN Finished(r, "null")
       ELSE IF c = "rateLimited"
         THEN [r EXCEPT !.pc = "sleep429", !.wait = retryAfterMs(header)]
       ELSE IF c = "notFound" THEN Finished(r, "null")
       ELSE IF backoffMs(r.attempt) > 0
         THEN [r EXCEPT !.pc = "backoff", !.wait = backoffMs(r.attempt)]
       ELSE nextAttempt(r)

\* The key status after request() has handled this status.
statusAfter(s, status, now) ==
    LET c == classify(status)
    IN IF c = "success" THEN markApiKeyValid(s)
       ELSE IF c = "apiKeyInvalid" THEN markApiKeyInvalid(s, now)
       ELSE s

\* client.get of a request() call settles.
Respond(p, status, header) ==
    /\ rq[p].pc = "net"
    /\ rq[p].fn = "request"
    /\ rq' = [rq EXCEPT ![p] = requestOutcome(rq[p], status, header)]
    /\ SetApiKeyStatus(statusAfter(getApiKeyStatus, status, clock))
    /\ UNCHANGED <<clock, requestTimestamps>>
    /\ UNCHANGED scraperVars
    /\ Observe

\* The retry-after sleep is over: continue, i.e. attempt++ and the loop test.
After429(p) ==
    /\ rq[p].pc = "sleep429"
    /\ rq[p].wait = 0
    /\ rq' = [rq EXCEPT ![p] = nextAttempt(rq[p])]
    /\ UNCHANGED <<clock, apiKeyValid, apiKeyInvalidSince, requestTimestamps>>
    /\ UNCHANGED scraperVars
    /\ Observe

\* The backoff sleep is over: attempt++ and the loop test.
AfterBackoff(p) ==
    /\ rq[p].pc = "backoff"
    /\ rq[p].wait = 0
    /\ rq' = [rq EXCEPT ![p] = nextAttempt(rq[p])]
    /\ UNCHANGED <<clock, apiKeyValid, apiKeyInvalidSince, requestTimestamps>>
    /\ UNCHANGED scraperVars
    /\ Observe

\* client.get of testApiKey() settles: true on success, false on any error.
ProbeRespond(status) ==
    /\ rq[HealthCheck].pc = "net"
    /\ rq[HealthCheck].fn = "testApiKey"
    /\ rq' = [rq EXCEPT ![HealthCheck] =
                Finished([rq[HealthCheck] EXCEPT !.status = status],
                         IF status = 200 THEN "true" ELSE "false")]
    /\ UNCHANGED <<clock, apiKeyValid, apiKeyInvalidSince, requestTimestamps>>
    /\ UNCHANGED scraperVars
    /\ Observe

\* p calls request(url), the rate limiter left out (it delays the call and
\* writes requestTimestamps, which nothing else reads): the credential
\* check, then client.get.
StartRequest(p, url) ==
    /\ rq[p].pc = "idle"
    /\ rq' = [rq EXCEPT ![p] =
                IF isApiKeyValid
                  THEN [IdleRq EXCEPT !.pc = "net", !.fn = "request", !.url = url]
                  ELSE [IdleRq EXCEPT !.pc = "done", !.fn = "request", !.url = url,
                                      !.result = "throw"]]
    /\ UNCHANGED <<clock, apiKeyValid, apiKeyInvalidSince, requestTimestamps>>
    /\ UNCHANGED scraperVars
    /\ Observe

(***************************************************************************)
(* startApiKeyHealthCheck: the interval callback                           *)
(***************************************************************************)
\* The interval timer fires while the key is invalid: testApiKey() is
\* called and, the rate limiter left out, sends its probe.
HealthCheckProbe ==
    /\ ~apiKeyValid
    /\ rq[HealthCheck].pc = "idle"
    /\ rq' = [rq EXCEPT ![HealthCheck] =
                [IdleRq EXCEPT !.pc = "net", !.fn = "testApiKey", !.url = StatusUrl]]
    /\ UNCHANGED <<clock, apiKeyValid, apiKeyInvalidSince, requestTimestamps>>
    /\ UNCHANGED scraperVars
    /\ Observe

\* markApiKeyValid() whatever checkFn() returned
HealthCheckDone_anyResult ==
    /\ rq[HealthCheck].pc = "done"
    /\ SetApiKeyStatus(markApiKeyValid(getApiKeyStatus))
    /\ rq' = [rq EXCEPT ![HealthCheck] = IdleRq]
    /\ UNCHANGED <<clock, requestTimestamps>>
    /\ UNCHANGED scraperVars
    /\ Observe

\* checkFn() has resolved: markApiKeyValid() if it returned true.
HealthCheckDone ==
    /\ rq[HealthCheck].pc = "done"
    /\ SetApiKeyStatus(IF rq[HealthCheck].result = "true"
                         THEN markApiKeyValid(getApiKeyStatus)
                         ELSE getApiKeyStatus)
    /\ rq' = [rq EXCEPT ![HealthCheck] = IdleRq]
    /\ UNCHANGED <<clock, requestTimestamps>>
    /\ UNCHANGED scraperVars
    /\ Observe

\* One ms less on every pending timer.
TimersElapse ==
    rq' = [p \in Callers |-> [rq[p] EXCEPT !.wait = IF @ > 0 THEN @ - 1 ELSE 0]]

\* Time passes, up to the horizon.
TickTo(horizon) ==
    /\ clock < horizon
    /\ clock' = clock + 1
    /\ TimersElapse
    /\ UNCHANGED <<apiKeyValid, apiKeyInvalidSince, requestTimestamps>>
    /\ UNCHANGED scraperVars
    /\ Observe

Tick == TickTo(MaxClock)

TickClients == TickTo(MaxClockClients)

\* request() past the rate limiter
AttemptStep(p) ==
    \/ \E status \in Statuses, header \in RetryAfterHeaders : Respond(p, status, header)
    \/ After429(p)
    \/ AfterBackoff(p)

\* the health check
ProbeStep ==
    \/ HealthCheckProbe
    \/ \E status \in Statuses : ProbeRespond(status)
    \/ HealthCheckDone

\* The key status and the clients once main() has built the workers.
InitApi ==
    /\ clock = 0
    /\ apiKeyValid = TRUE
    /\ apiKeyInvalidSince = NoDate
    /\ requestTimestamps = [w \in Workers |-> <<>>]
    /\ rq = [p \in Callers |-> IdleRq]
    /\ responses = <<>>
    /\ recorded = <<>>

(***************************************************************************)
(* config.ts and the constants of worker.ts                                *)
(***************************************************************************)
\* a patch "major.minor" is the pair <<major, minor>>, null the empty tuple
NoPatch == <<>>

\* config.targetDivisions (two of the four divisions)
targetDivisions == <<"I", "II">>

validQueueIds == {420}

minGameDurationSeconds == 480

\* const API_KEY_CHECK_INTERVAL = 30000
API_KEY_CHECK_INTERVAL == 30000

\* the pause after a round that threw something else
errorPauseMs == 10000

\* the pause between two rounds
roundPauseMs == 5000

\* players.slice(0, 5), and getMatchHistory(puuid, 0, 10) of detectLatestPatch
detectSampleSize == 5

detectHistoryCount == 10

\* getMatchHistory(puuid, 0, 20) of findPatchBoundary
boundaryHistoryCount == 20

\* gameCreation is in ms, timestamps are in seconds
msPerSecond == 1000

(***************************************************************************)
(* The remote API: what a successful call returns.  Player P2 is ranked on *)
(* both platforms, and match M1 is in the history of P1 and of P2.  The    *)
(* players P3 to P6 are ranked in no division that is crawled here: they   *)
(* are on the rosters an earlier run has stored.  A history lists the most *)
(* recent match first; M5 has a corrupt creation time, and the body that   *)
(* comes back for M8, of player P7, has no info.                           *)
(***************************************************************************)
\* league/v4/entries of a platform, by division and page
RemoteEntries(region, division, page) ==
    IF region = "na1" /\ division = "I" /\ page = 1 THEN <<"P1", "P2">>
    ELSE IF region = "na1" /\ division = "II" /\ page = 1 THEN <<"P1">>
    ELSE IF region = "euw1" /\ division = "I" /\ page = 1 THEN <<"P2">>
    ELSE <<>>

\* a body without info: matchData.info is undefined
NoInfo ==
    [gameVersion |-> <<>>, queueId |-> 0, gameDuration |-> 0, gameCreation |-> 0]

\* match/v5/matches/{id}: the fields of info the scraper reads
RemoteMatch(matchId) ==
    IF matchId = "M8" THEN NoInfo
    ELSE IF matchId = "M1"
      THEN [gameVersion |-> <<14, 10, 1, 1>>, queueId |-> 420,
            gameDuration |-> 1800, gameCreation |-> 9500]
    ELSE IF matchId = "M2"
      THEN [gameVersion |-> <<14, 10, 1, 1>>, queueId |-> 450,
            gameDuration |-> 1800, gameCreation |-> 8500]
    ELSE IF matchId = "M3"
      THEN [gameVersion |-> <<14, 10, 1, 1>>, queueId |-> 420,
            gameDuration |-> 300, gameCreation |-> 7500]
    ELSE IF matchId = "M5"
      THEN [gameVersion |-> <<14, 9, 1, 1>>, queueId |-> 420,
            gameDuration |-> 1800, gameCreation |-> 0]
    ELSE IF matchId = "M6"
      THEN [gameVersion |-> <<14, 9, 1, 1>>, queueId |-> 420,
            gameDuration |-> 1800, gameCreation |-> 4500]
    ELSE IF matchId = "M7"
      THEN [gameVersion |-> <<14, 11, 1, 1>>, queueId |-> 420,
            gameDuration |-> 1800, gameCreation |-> 9800]
    ELSE [gameVersion |-> <<14, 9, 1, 1>>, queueId |-> 420,
          gameDuration |-> 1800, gameCreation |-> 6500]

MatchIds == {"M0", "M1", "M2", "M3", "M4", "M5", "M6", "M7", "M8"}

\* the ranked matches of a player, most recent first
RemoteMatches(puuid) ==
    IF puuid = "P1" THEN <<"M1", "M2", "M3">>
    ELSE IF puuid = "P3" THEN <<"M4", "M6">>
    ELSE IF puuid = "P4" THEN <<"M1", "M3", "M5", "M4", "M6">>
    ELSE IF puuid = "P5" THEN <<>>
    ELSE IF puuid = "P6" THEN <<"M7">>
    ELSE IF puuid = "P7" THEN <<"M8", "M1">>
    ELSE <<"M1", "M4">>

\* the first count elements of a list after the first start
Page(list, start, count) ==
    SubSeq(list, start + 1, IF start + count < Len(list) THEN start + count ELSE Len(list))

\* match/v5/matches/by-puuid/{puuid}/ids?start=&count=&startTime=
RemoteHistory(url) ==
    LET all == RemoteMatches(url.key)
        since == IF url.startTime = NoDate
                   THEN all
                   ELSE SelectSeq(all, LAMBDA m :
                            RemoteMatch(m).gameCreation >= url.startTime * msPerSecond)
    IN Page(since, url.start, url.count)

(***************************************************************************)
(* db/schema.ts, db/queries.ts: a table is the sequence of its rows        *)
(***************************************************************************)
\* SELECT 1 FROM matches WHERE match_id = ?
matchExists(tbl, matchId) ==
    \E i \in 1..Len(tbl) : tbl[i].match_id = matchId

\* a plain INSERT, on a table without the UNIQUE constraint
saveMatch_noIgnore(tbl, matchId, patch, data) ==
    Append(tbl, [match_id |-> matchId, patch |-> patch, data |-> data])

\* INSERT OR IGNORE INTO matches, match_id being UNIQUE
saveMatch(tbl, matchId, patch, data) ==
    IF matchExists(tbl, matchId)
      THEN tbl
      ELSE Append(tbl, [match_id |-> matchId, patch |-> patch, data |-> data])

\* what saveMatch returns: true, whether or not the INSERT OR IGNORE added a
\* row (an ignored conflict does not throw)
saveMatchReturns(tbl, matchId) == TRUE

\* SELECT COUNT(*) FROM matches
getMatchCount(tbl) == Len(tbl)

\* The oldest gameCreation of the stored matches of a patch, in seconds;
\* null if there is none, or if it is 0.
getOldestMatchTimestamp(tbl, patch) ==
    LET rows == {i \in 1..Len(tbl) : tbl[i].patch = patch}
    IN IF rows = {} THEN NoDate
       ELSE LET first == CHOOSE i \in rows :
                            \A k \in rows : tbl[i].data.gameCreation <= tbl[k].data.gameCreation
                gameCreation == tbl[first].data.gameCreation
            IN IF gameCreation = 0 THEN NoDate ELSE gameCreation \div msPerSecond

\* a plain INSERT, on a table without the UNIQUE constraint
savePlayer_noIgnore(tbl, puuid, region) ==
    Append(tbl, [puuid |-> puuid, region |-> region, match_offset |-> 0])

\* INSERT OR IGNORE INTO players, (puuid, region) being UNIQUE
savePlayer(tbl, puuid, region) ==
    IF \E i \in 1..Len(tbl) : tbl[i].puuid = puuid /\ tbl[i].region = region
      THEN tbl
      ELSE Append(tbl, [puuid |-> puuid, region |-> region, match_offset |-> 0])

\* SELECT * FROM players WHERE region = ?
getPlayersByRegion(tbl, region) ==
    SelectSeq(tbl, LAMBDA row : row.region = region)

\* UPDATE players SET match_offset = ? WHERE puuid = ? AND region = ?
updatePlayerOffset(tbl, puuid, region, offset) ==
    [i \in 1..Len(tbl) |->
        IF tbl[i].puuid = puuid /\ tbl[i].region = region
          THEN [tbl[i] EXCEPT !.match_offset = offset]
          ELSE tbl[i]]

\* INSERT INTO scrape_state ... ON CONFLICT(region) DO UPDATE
updateScrapeState(tbl, region, totalMatches) ==
    [tbl EXCEPT ![region] = totalMatches]

(***************************************************************************)
(* ScraperWorker (worker.ts)                                               *)
(*   wk[w].pc is where start() stands.  At an await:                       *)
(*     "init"                   constructed, start() not called            *)
(*     "await_entries"          getLeagueEntries of fetchPlayers           *)
(*     "await_detect_history"   getMatchHistory of detectLatestPatch       *)
(*     "await_detect_details"   getMatchDetails of detectLatestPatch       *)
(*     "await_boundary_history" getMatchHistory of findPatchBoundary       *)
(*     "await_boundary_details" getMatchDetails of findPatchBoundary       *)
(*     "await_history"          getMatchHistory of the player loop         *)
(*     "await_details"          getMatchDetails of the match loop          *)
(*     "sleep"                  one of the sleeps of start()               *)
(*     "stopped"                start() has returned                       *)
(*     "rejected"               start() has thrown                         *)
(*   and between two awaits the positions that Step names.                 *)
(***************************************************************************)
AwaitRequestPcs ==
    {"await_entries", "await_detect_history", "await_detect_details",
     "await_boundary_history", "await_boundary_details",
     "await_history", "await_details"}

AwaitPcs == AwaitRequestPcs \cup {"init", "sleep", "stopped", "rejected"}

\* The locals of scrapeRound and of the methods it calls, before they are set.
NoLocals ==
    [players |-> <<>>, i |-> 0, matchIds |-> <<>>, j |-> 0,
     matchesThisRound |-> 0, skippedOldPatch |-> 0, division |-> 0, page |-> 0,
     patchCounts |-> <<>>, oldestOnTargetPatch |-> NoDate, url |-> NoUrl]

\* history: nothing has happened yet (persisted is the set of the matches
\* whose row the worker has added)
NoJournal ==
    [entries |-> <<>>, entriesDone |-> FALSE,
     patchBegun |-> FALSE,
     sampled |-> <<>>, detected |-> FALSE,
     scanned |-> <<>>, boundaryReturned |-> FALSE, boundary |-> NoDate,
     saved |-> [matchId |-> "", returned |-> FALSE, added |-> FALSE],
     roundLog |-> [matchesThisRound |-> 0, skippedOldPatch |-> 0],
     persisted |-> {},
     roundEnded |-> "none", caught |-> "none"]

\* new ScraperWorker(region)
NewWorker(region) ==
    [region |-> region, pc |-> "init", running |-> FALSE, currentPatch |-> NoPatch,
     targetPatch |-> NoPatch, patchStartTimestamp |-> NoDate,
     patchBoundarySearched |-> FALSE, sleepMs |-> 0, local |-> NoLocals]

\* gameVersion "14.24.123.456" is <<14, 24, 123, 456>>
extractPatch(gameVersion) == <<gameVersion[1], gameVersion[2]>>

comparePatch(a, b) ==
    IF a[1] # b[1] THEN a[1] - b[1] ELSE a[2] - b[2]

\* The characters of `${major}.${minor}`: a digit is its value, the dot is
\* below every digit, as in the comparison of strings by code unit.
Dot == -1

RECURSIVE Digits(_)
Digits(n) == IF n < 10 THEN <<n>> ELSE Append(Digits(n \div 10), n % 10)

PatchString(patch) == Digits(patch[1]) \o <<Dot>> \o Digits(patch[2])

\* a > b on strings
RECURSIVE StringGreater(_, _)
StringGreater(a, b) ==
    IF a = <<>> THEN FALSE
    ELSE IF b = <<>> THEN TRUE
    ELSE IF a[1] # b[1] THEN a[1] > b[1]
    ELSE StringGreater(Tail(a), Tail(b))

\* isValidMatch without the duration check
isValidMatch_anyDuration(info) ==
    info.queueId \in validQueueIds

isValidMatch(info) ==
    /\ info.queueId \in validQueueIds
    /\ ~(info.gameDuration < minGameDurationSeconds)

\* patchCounts.set(patch, (patchCounts.get(patch) || 0) + 1)
countPatch(patchCounts, patch) ==
    IF \E i \in 1..Len(patchCounts) : patchCounts[i].patch = patch
      THEN [i \in 1..Len(patchCounts) |->
              IF patchCounts[i].patch = patch
                THEN [patchCounts[i] EXCEPT !.count = @ + 1]
                ELSE patchCounts[i]]
      ELSE Append(patchCounts, [patch |-> patch, count |-> 1])

\* the keys sorted as strings
latestPatch_lexicographic(patchCounts) ==
    LET i == CHOOSE i \in 1..Len(patchCounts) :
                \A k \in 1..Len(patchCounts) :
                    ~StringGreater(PatchString(patchCounts[k].patch),
                                   PatchString(patchCounts[i].patch))
    IN patchCounts[i].patch

\* Array.from(patchCounts.keys()).sort(...)[0], for a non-empty map
latestPatch(patchCounts) ==
    LET i == CHOOSE i \in 1..Len(patchCounts) :
                \A k \in 1..Len(patchCounts) :
                    comparePatch(patchCounts[i].patch, patchCounts[k].patch) >= 0
    IN patchCounts[i].patch

\* for (const entry of entries) savePlayer(entry.puuid, region)
RECURSIVE savePlayers(_, _, _)
savePlayers(tbl, entries, region) ==
    IF entries = <<>> THEN tbl
    ELSE savePlayers(savePlayer(tbl, entries[1], region), Tail(entries), region)

(***************************************************************************)
(* The code of start() and scrapeRound() between two awaits.  A frame s is *)
(* the worker, the tables it writes, what it reads (the key status and     *)
(* config.targetPatch), and the histories.                                 *)
(***************************************************************************)
Goto(s, pc) == [s EXCEPT !.wk.pc = pc]

\* history: what the bootstrap returned and what patch targeting sampled
\* and scanned is kept until the round is past its first getMatchHistory,
\* or ended by an exception
preludeForgotten(s) ==
    [s EXCEPT !.journal.entries = <<>>, !.journal.entriesDone = FALSE,
              !.journal.sampled = <<>>, !.journal.detected = FALSE,
              !.journal.scanned = <<>>, !.journal.boundaryReturned = FALSE,
              !.journal.boundary = NoDate]

\* await new Promise((resolve) => setTimeout(resolve, ms)), in start():
\* the frame of scrapeRound, if any, is gone
sleep(s, ms) ==
    [s EXCEPT !.wk.pc = "sleep", !.wk.sleepMs = ms, !.wk.local = NoLocals]

\* history: what became of the next identifier of the page being processed
noteOutcome(s, outcome) ==
    [s EXCEPT !.fetched[Len(s.fetched)].outcomes = Append(@, outcome)]

\* history: the page being processed, if any, was left unfinished
abortPage(s) ==
    IF s.wk.pc \in {"matches_next", "await_details"}
      THEN [s EXCEPT !.fetched[Len(s.fetched)].aborted = TRUE]
      ELSE s

\* the positions of the loop over the players in scrapeRound
PlayerLoopPcs == {"players_next", "await_history", "matches_next", "await_details"}

\* catch (err) of start(), err being an ApiKeyInvalidError
catchApiKeyInvalid(s) ==
    sleep([preludeForgotten(abortPage(s)) EXCEPT
               !.journal.roundEnded =
                   IF s.wk.pc \in PlayerLoopPcs THEN "threwInPlayers" ELSE "threwBefore",
               !.journal.caught = "ApiKeyInvalidError"],
          API_KEY_CHECK_INTERVAL)

\* the exception is not caught: start() throws
catchError_rethrown(s) ==
    [preludeForgotten(abortPage(s)) EXCEPT
         !.wk.pc = "rejected", !.wk.local = NoLocals,
         !.journal.roundEnded = "threwError", !.journal.caught = "none"]

\* catch (err) of start(), err being anything else: here the TypeError of
\* reading matchData.info.gameVersion or info.queueId of a body without info
catchError(s) ==
    sleep([preludeForgotten(abortPage(s)) EXCEPT
               !.journal.roundEnded = "threwError", !.journal.caught = "Error"],
          errorPauseMs)

\* await this.api.request(url): it throws at once if the key is invalid,
\* otherwise the worker waits for it at awaitPc
callRequest(s, url, awaitPc) ==
    IF s.valid
      THEN [s EXCEPT !.wk.pc = awaitPc, !.wk.local.url = url]
      ELSE catchApiKeyInvalid(s)

\* the loop ended, instead of paused, by an invalid key
loopTop_pauseEndsLoop(s) ==
    LET s1 == [s EXCEPT !.journal.caught = "none"]
    IN IF ~s.wk.running \/ ~s.valid THEN Goto(s1, "stopped")
       ELSE Goto(s1, "round")

\* while (true)
loopTop_ignoresStop(s) ==
    LET s1 == [s EXCEPT !.journal.caught = "none"]
    IN IF ~s.valid THEN sleep(s1, API_KEY_CHECK_INTERVAL)
       ELSE Goto(s1, "round")

\* while (this.running) and the top of its body
loopTop(s) ==
    LET s1 == [s EXCEPT !.journal.caught = "none"]
    IN IF ~s.wk.running THEN Goto(s1, "stopped")
       ELSE IF ~s.valid THEN sleep(s1, API_KEY_CHECK_INTERVAL)
       ELSE Goto(s1, "round")

\* scrapeRound: the roster, fetched first if there is none
scrapeRoundBegin(s) ==
    LET roster == getPlayersByRegion(s.players, s.wk.region)
    IN IF Len(roster) = 0
         THEN [preludeForgotten(s) EXCEPT
                   !.wk.pc = "fp_page", !.wk.local.division = 1,
                   !.wk.local.page = 1, !.fetched = <<>>,
                   !.journal.roundLog = NoJournal.roundLog,
                   !.journal.roundEnded = "none"]
         ELSE [preludeForgotten(s) EXCEPT
                   !.wk.pc = "patch", !.wk.local.players = roster,
                   !.fetched = <<>>,
                   !.journal.roundLog = NoJournal.roundLog,
                   !.journal.roundEnded = "none"]

\* fetchPlayers: the tests of its two loops, then getLeagueEntries
fetchPlayersPage(s) ==
    LET l == s.wk.local
    IN IF l.division > Len(targetDivisions)
         THEN [s EXCEPT !.wk.pc = "fp_done", !.wk.local.division = 0, !.wk.local.page = 0,
                        !.journal.entriesDone = TRUE]
       ELSE IF l.page > playerPagesPerDivision
         THEN [s EXCEPT !.wk.local.division = @ + 1, !.wk.local.page = 1]
       ELSE callRequest(s, EntriesUrl(targetDivisions[l.division], l.page), "await_entries")

\* fetchPlayers: a page has arrived
afterLeagueEntries(s, entries) ==
    LET returned == [division |-> s.wk.local.division, page |-> s.wk.local.page,
                     entries |-> entries]
    IN IF Len(entries) = 0
         THEN [s EXCEPT !.wk.pc = "fp_page", !.wk.local.division = @ + 1,
                        !.wk.local.page = 1, !.wk.local.url = NoUrl,
                        !.journal.entries = Append(@, returned)]
         ELSE [s EXCEPT !.wk.pc = "fp_page", !.wk.local.page = @ + 1,
                        !.wk.local.url = NoUrl,
                        !.players = savePlayers(@, entries, s.wk.region),
                        !.journal.entries = Append(@, returned)]

\* scrapeRound after fetchPlayers: the roster again
fetchPlayersDone(s) ==
    LET roster == getPlayersByRegion(s.players, s.wk.region)
    IN IF Len(roster) = 0
         THEN Goto(s, "round_return")
         ELSE [s EXCEPT !.wk.pc = "patch", !.wk.local.players = roster]

\* if (!this.patchBoundarySearched): the target from the configuration, or
\* detectLatestPatch
patchTargeting(s) ==
    IF s.wk.patchBoundarySearched THEN Goto(s, "players_start")
    ELSE IF s.cfg # NoPatch
      THEN [s EXCEPT !.wk.pc = "boundary_start", !.wk.targetPatch = s.cfg,
                     !.journal.patchBegun = TRUE]
    ELSE [s EXCEPT !.wk.pc = "detect_next", !.wk.local.patchCounts = <<>>,
                   !.wk.local.i = 1,
                   !.journal.patchBegun = TRUE]

\* detectLatestPatch: the next sampled player
detectNext(s) ==
    LET l == s.wk.local
        n == IF Len(l.players) < detectSampleSize THEN Len(l.players) ELSE detectSampleSize
    IN IF l.i > n
         THEN Goto(s, "detect_end")
         ELSE callRequest(s, HistoryUrl(l.players[l.i].puuid, 0, detectHistoryCount, NoDate),
                          "await_detect_history")

afterDetectHistory(s, matchIds) ==
    IF Len(matchIds) = 0
      THEN [s EXCEPT !.wk.pc = "detect_next", !.wk.local.i = @ + 1, !.wk.local.url = NoUrl]
      ELSE callRequest(s, DetailsUrl(matchIds[1]), "await_detect_details")

afterDetectDetails(s, ok, info) ==
    IF ~ok
      THEN [s EXCEPT !.wk.pc = "detect_next", !.wk.local.i = @ + 1, !.wk.local.url = NoUrl]
    ELSE IF info = NoInfo THEN catchError(s)
      ELSE [s EXCEPT !.wk.pc = "detect_next", !.wk.local.i = @ + 1, !.wk.local.url = NoUrl,
                     !.wk.local.patchCounts = countPatch(@, extractPatch(info.gameVersion)),
                     !.journal.sampled =
                         Append(@, [puuid |-> s.wk.local.players[s.wk.local.i].puuid,
                                    patch |-> extractPatch(info.gameVersion)])]

\* detectLatestPatch returns, and this.targetPatch is assigned
detectEnd(s) ==
    LET l == s.wk.local
    IN [s EXCEPT !.wk.pc = "boundary_start",
                 !.wk.targetPatch = IF Len(l.patchCounts) = 0 THEN NoPatch
                                    ELSE latestPatch(l.patchCounts),
                 !.wk.local.patchCounts = <<>>, !.wk.local.i = 0,
                 !.journal.detected = TRUE]

\* if (this.targetPatch): the loop over the players that calls findPatchBoundary
boundaryStart(s) ==
    IF s.wk.targetPatch # NoPatch
      THEN [s EXCEPT !.wk.pc = "boundary_next", !.wk.local.i = 1]
      ELSE Goto(s, "patch_done")

\* findPatchBoundary of the next player, up to its getMatchHistory: the
\* oldest stored match of the target patch, if there is one, is the boundary
boundaryNext(s) ==
    LET l == s.wk.local
        dbTimestamp == getOldestMatchTimestamp(s.matches, s.wk.targetPatch)
    IN IF l.i > Len(l.players)
         THEN [s EXCEPT !.wk.pc = "patch_done", !.wk.local.i = 0]
       ELSE IF dbTimestamp # NoDate /\ dbTimestamp # 0
         THEN [s EXCEPT !.wk.pc = "patch_done", !.wk.local.i = 0,
                        !.wk.patchStartTimestamp = dbTimestamp]
       ELSE callRequest(s, HistoryUrl(l.players[l.i].puuid, 0, boundaryHistoryCount, NoDate),
                        "await_boundary_history")

afterBoundaryHistory(s, matchIds) ==
    IF Len(matchIds) = 0
      THEN [s EXCEPT !.wk.pc = "boundary_next", !.wk.local.i = @ + 1,
                     !.wk.local.url = NoUrl,
                     !.journal.scanned = <<>>, !.journal.boundaryReturned = TRUE,
                     !.journal.boundary = NoDate]
      ELSE [s EXCEPT !.wk.pc = "boundary_scan", !.wk.local.matchIds = matchIds,
                     !.wk.local.j = 1, !.wk.local.oldestOnTargetPatch = NoDate,
                     !.wk.local.url = NoUrl,
                     !.journal.scanned = <<>>, !.journal.boundaryReturned = FALSE,
                     !.journal.boundary = NoDate]

\* findPatchBoundary: the next match of the sample
boundaryScan(s) ==
    LET l == s.wk.local
    IN IF l.j > Len(l.matchIds)
         THEN Goto(s, "boundary_return")
         ELSE callRequest(s, DetailsUrl(l.matchIds[l.j]), "await_boundary_details")

\* findPatchBoundary keeping the first timestamp seen on the target patch
afterBoundaryDetails_firstSeen(s, ok, info) ==
    LET s1 == [s EXCEPT !.journal.scanned =
                      Append(@, [matchId |-> s.wk.local.matchIds[s.wk.local.j], ok |-> ok])]
        next == [s1 EXCEPT !.wk.pc = "boundary_scan", !.wk.local.j = @ + 1,
                           !.wk.local.url = NoUrl]
        patch == extractPatch(info.gameVersion)
        timestamp == info.gameCreation \div msPerSecond
    IN IF ~ok THEN next
       ELSE IF info = NoInfo THEN catchError(s)
       ELSE IF timestamp < minTimestamp THEN next
       ELSE IF patch = s.wk.targetPatch
         THEN [next EXCEPT !.wk.local.oldestOnTargetPatch =
                               IF @ = NoDate THEN timestamp ELSE @]
       ELSE IF comparePatch(patch, s.wk.targetPatch) < 0
         THEN [s1 EXCEPT !.wk.pc = "boundary_return", !.wk.local.url = NoUrl]
       ELSE next

afterBoundaryDetails(s, ok, info) ==
    LET s1 == [s EXCEPT !.journal.scanned =
                      Append(@, [matchId |-> s.wk.local.matchIds[s.wk.local.j], ok |-> ok])]
        next == [s1 EXCEPT !.wk.pc = "boundary_scan", !.wk.local.j = @ + 1,
                           !.wk.local.url = NoUrl]
        patch == extractPatch(info.gameVersion)
        timestamp == info.gameCreation \div msPerSecond
    IN IF ~ok THEN next
       ELSE IF info = NoInfo THEN catchError(s)
       ELSE IF timestamp < minTimestamp THEN next
       ELSE IF patch = s.wk.targetPatch
         THEN [next EXCEPT !.wk.local.oldestOnTargetPatch = timestamp]
       ELSE IF comparePatch(patch, s.wk.targetPatch) < 0
         THEN [s1 EXCEPT !.wk.pc = "boundary_return", !.wk.local.url = NoUrl]
       ELSE next

\* findPatchBoundary returns oldestOnTargetPatch: the boundary, or the next
\* player
boundaryReturn(s) ==
    LET l == s.wk.local
        done == [s EXCEPT !.wk.local.matchIds = <<>>, !.wk.local.j = 0,
                          !.wk.local.oldestOnTargetPatch = NoDate,
                          !.journal.boundaryReturned = TRUE,
                          !.journal.boundary = l.oldestOnTargetPatch]
    IN IF l.oldestOnTargetPatch # NoDate
         THEN [done EXCEPT !.wk.pc = "patch_done", !.wk.local.i = 0,
                           !.wk.patchStartTimestamp = l.oldestOnTargetPatch]
         ELSE [done EXCEPT !.wk.pc = "boundary_next", !.wk.local.i = @ + 1]

\* this.patchBoundarySearched = true
patchDone(s) ==
    [s EXCEPT !.wk.pc = "players_start", !.wk.patchBoundarySearched = TRUE]

playersStart(s) ==
    [s EXCEPT !.wk.pc = "players_next", !.wk.local.i = 1,
              !.wk.local.matchesThisRound = 0, !.wk.local.skippedOldPatch = 0]

\* for (const player of players): the stop test, then getMatchHistory from
\* the offset the player had when the round read the roster
playersNext(s) ==
    LET l == s.wk.local
    IN IF l.i > Len(l.players) \/ ~s.wk.running
         THEN Goto(s, "round_end")
         ELSE callRequest(s, HistoryUrl(l.players[l.i].puuid, l.players[l.i].match_offset,
                                        matchHistoryCount, s.wk.patchStartTimestamp),
                          "await_history")

\* a player without identifiers ends the loop over the players
afterMatchHistory_endsRound(s, matchIds) ==
    LET l == s.wk.local
        page == [puuid |-> l.players[l.i].puuid, offset |-> l.players[l.i].match_offset,
                 count |-> Len(matchIds), ids |-> matchIds, aborted |-> FALSE,
                 outcomes |-> <<>>]
    IN IF Len(matchIds) = 0
         THEN [preludeForgotten(s) EXCEPT
                   !.wk.pc = "round_end",
                   !.wk.local.url = NoUrl, !.fetched = Append(@, page)]
         ELSE [preludeForgotten(s) EXCEPT
                   !.wk.pc = "matches_next", !.wk.local.matchIds = matchIds,
                   !.wk.local.j = 1, !.wk.local.url = NoUrl,
                   !.fetched = Append(@, page)]

afterMatchHistory(s, matchIds) ==
    LET l == s.wk.local
        page == [puuid |-> l.players[l.i].puuid, offset |-> l.players[l.i].match_offset,
                 count |-> Len(matchIds), ids |-> matchIds, aborted |-> FALSE,
                 outcomes |-> <<>>]
    IN IF Len(matchIds) = 0
         THEN [preludeForgotten(s) EXCEPT
                   !.wk.pc = "players_next", !.wk.local.i = @ + 1,
                   !.wk.local.url = NoUrl, !.fetched = Append(@, page)]
         ELSE [preludeForgotten(s) EXCEPT
                   !.wk.pc = "matches_next", !.wk.local.matchIds = matchIds,
                   !.wk.local.j = 1, !.wk.local.url = NoUrl,
                   !.fetched = Append(@, page)]

\* for (const matchId of matchIds): the stop test, matchExists, then
\* getMatchDetails
matchesNext(s) ==
    LET l == s.wk.local
    IN IF l.j > Len(l.matchIds) \/ ~s.wk.running
         THEN Goto(s, "offset")
       ELSE IF matchExists(s.matches, l.matchIds[l.j])
         THEN noteOutcome([s EXCEPT !.wk.local.j = @ + 1], "exists")
       ELSE callRequest(s, DetailsUrl(l.matchIds[l.j]), "await_details")

\* the body of the match loop without the test of the target patch
afterMatchDetails_anyPatch(s, ok, info) ==
    LET l == s.wk.local
        next == [s EXCEPT !.wk.pc = "matches_next", !.wk.local.j = @ + 1,
                          !.wk.local.url = NoUrl]
        patch == extractPatch(info.gameVersion)
    IN IF ~ok THEN noteOutcome(next, "noData")
       ELSE IF info = NoInfo THEN catchError(s)
       ELSE IF ~isValidMatch(info) THEN noteOutcome(next, "invalid")
       ELSE noteOutcome(
              [next EXCEPT
                 !.wk.currentPatch =
                     IF @ = NoPatch \/ StringGreater(PatchString(patch), PatchString(@))
                       THEN patch ELSE @,
                 !.matches = saveMatch(@, l.matchIds[l.j], patch, info),
                 !.saveCalls[l.matchIds[l.j]] = @ + 1,
                 !.journal.saved =
                     [matchId |-> l.matchIds[l.j],
                      returned |-> saveMatchReturns(s.matches, l.matchIds[l.j]),
                      added |-> ~matchExists(s.matches, l.matchIds[l.j])],
                 !.journal.persisted =
                     IF matchExists(s.matches, l.matchIds[l.j])
                       THEN @ ELSE @ \cup {l.matchIds[l.j]},
                 !.wk.local.matchesThisRound = @ + 1],
              "saved")

\* the rest of the body of the match loop
afterMatchDetails(s, ok, info) ==
    LET l == s.wk.local
        next == [s EXCEPT !.wk.pc = "matches_next", !.wk.local.j = @ + 1,
                          !.wk.local.url = NoUrl]
        patch == extractPatch(info.gameVersion)
    IN IF ~ok THEN noteOutcome(next, "noData")
       ELSE IF info = NoInfo THEN catchError(s)
       ELSE IF ~isValidMatch(info) THEN noteOutcome(next, "invalid")
       ELSE IF s.wk.targetPatch # NoPatch /\ patch # s.wk.targetPatch
         THEN noteOutcome([next EXCEPT !.wk.local.skippedOldPatch = @ + 1], "otherPatch")
       ELSE noteOutcome(
              [next EXCEPT
                 !.wk.currentPatch =
                     IF @ = NoPatch \/ StringGreater(PatchString(patch), PatchString(@))
                       THEN patch ELSE @,
                 !.matches = saveMatch(@, l.matchIds[l.j], patch, info),
                 !.saveCalls[l.matchIds[l.j]] = @ + 1,
                 !.journal.saved =
                     [matchId |-> l.matchIds[l.j],
                      returned |-> saveMatchReturns(s.matches, l.matchIds[l.j]),
                      added |-> ~matchExists(s.matches, l.matchIds[l.j])],
                 !.journal.persisted =
                     IF matchExists(s.matches, l.matchIds[l.j])
                       THEN @ ELSE @ \cup {l.matchIds[l.j]},
                 !.wk.local.matchesThisRound = @ + 1],
              "saved")

\* the offset advanced by the number of matches saved
offsetUpdate_accepted(s) ==
    LET l == s.wk.local
        player == l.players[l.i]
    IN [s EXCEPT !.wk.pc = "players_next", !.wk.local.i = @ + 1,
                 !.wk.local.matchIds = <<>>, !.wk.local.j = 0,
                 !.players = updatePlayerOffset(@, player.puuid, s.wk.region,
                                                player.match_offset + l.matchesThisRound)]

\* updatePlayerOffset(player.puuid, platform, player.match_offset + matchIds.length)
offsetUpdate(s) ==
    LET l == s.wk.local
        player == l.players[l.i]
    IN [s EXCEPT !.wk.pc = "players_next", !.wk.local.i = @ + 1,
                 !.wk.local.matchIds = <<>>, !.wk.local.j = 0,
                 !.players = updatePlayerOffset(@, player.puuid, s.wk.region,
                                                player.match_offset + Len(l.matchIds))]

\* updateScrapeState(platform, getMatchCount()), and the "Round complete"
\* line of the log
roundEnd(s) ==
    [s EXCEPT !.wk.pc = "round_return",
              !.scrape_state = updateScrapeState(@, s.wk.region, getMatchCount(s.matches)),
              !.journal.roundLog =
                  [matchesThisRound |-> s.wk.local.matchesThisRound,
                   skippedOldPatch |-> s.wk.local.skippedOldPatch]]

\* scrapeRound has returned: the pause between two rounds
roundReturn(s) == sleep([s EXCEPT !.journal.roundEnded = "returned"], roundPauseMs)

\* One position of the code between two awaits.
Step(s) ==
    LET pc == s.wk.pc
    IN IF pc = "loop" THEN loopTop(s)
       ELSE IF pc = "round" THEN scrapeRoundBegin(s)
       ELSE IF pc = "fp_page" THEN fetchPlayersPage(s)
       ELSE IF pc = "fp_done" THEN fetchPlayersDone(s)
       ELSE IF pc = "patch" THEN patchTargeting(s)
       ELSE IF pc = "detect_next" THEN detectNext(s)
       ELSE IF pc = "detect_end" THEN detectEnd(s)
       ELSE IF pc = "boundary_start" THEN boundaryStart(s)
       ELSE IF pc = "boundary_next" THEN boundaryNext(s)
       ELSE IF pc = "boundary_scan" THEN boundaryScan(s)
       ELSE IF pc = "boundary_return" THEN boundaryReturn(s)
       ELSE IF pc = "patch_done" THEN patchDone(s)
       ELSE IF pc = "players_start" THEN playersStart(s)
       ELSE IF pc = "players_next" THEN playersNext(s)
       ELSE IF pc = "matches_next" THEN matchesNext(s)
       ELSE IF pc = "offset" THEN offsetUpdate(s)
       ELSE IF pc = "round_end" THEN roundEnd(s)
       ELSE roundReturn(s)

\* The code runs up to its next await.
RECURSIVE Run(_)
Run(s) ==
    IF s.wk.pc \in AwaitPcs THEN s
    ELSE CHOOSE t \in {Run(u) : u \in {Step(s)}} : TRUE

(***************************************************************************)
(* The steps of a worker.  In these the client's rate limiter is left out  *)
(* (it delays a call and writes requestTimestamps, which nothing else      *)
(* reads), and so is the time a timer takes: a call starts with the        *)
(* credential check of request() and has client.get in flight at once, and *)
(* a sleep is over at some later moment.                                   *)
(***************************************************************************)
Frame(w) ==
    [wk |-> wk[w], matches |-> matches, players |-> players,
     scrape_state |-> scrape_state, fetched |-> fetched[w], saveCalls |-> saveCalls,
     journal |-> journal[w], valid |-> isApiKeyValid, cfg |-> targetPatchConfig]

\* The request() call a worker waits for, client.get in flight.
requestOf(worker) ==
    IF worker.pc \in AwaitRequestPcs
      THEN [IdleRq EXCEPT !.pc = "net", !.fn = "request", !.url = worker.local.url]
      ELSE IdleRq

\* w runs from frame s to its next await.
Continue(w, s) ==
    \E t \in {Run(u) : u \in {s}} :
       /\ wk' = [wk EXCEPT ![w] = t.wk]
       /\ matches' = t.matches
       /\ players' = t.players
       /\ scrape_state' = t.scrape_state
       /\ fetched' = [fetched EXCEPT ![w] = t.fetched]
       /\ saveCalls' = t.saveCalls
       /\ journal' = [journal EXCEPT ![w] = t.journal]
       /\ rq' = [rq EXCEPT ![w] = requestOf(t.wk)]
       /\ UNCHANGED <<clock, apiKeyValid, apiKeyInvalidSince, requestTimestamps,
                      targetPatchConfig>>
       /\ Observe

\* worker.start()
Start(w) ==
    /\ wk[w].pc = "init"
    /\ Continue(w, [Frame(w) EXCEPT !.wk.running = TRUE, !.wk.pc = "loop"])

\* worker.stop()
Stop(w) ==
    /\ wk[w].running
    /\ wk' = [wk EXCEPT ![w].running = FALSE]
    /\ UNCHANGED <<apiVars, targetPatchConfig, matches, players, scrape_state,
                   fetched, saveCalls, journal>>
    /\ Observe

\* A sleep of start() is over: the while test again.
WakeUp(w) ==
    /\ wk[w].pc = "sleep"
    /\ Continue(w, [Frame(w) EXCEPT !.wk.pc = "loop", !.wk.sleepMs = 0])

\* The request() call w waits for has returned or thrown.
Settled(w, pc) ==
    /\ wk[w].pc = pc
    /\ rq[w].pc = "done"

Threw(w) == rq[w].result = "throw"

\* result || []
ListOf(w, data) == IF rq[w].result = "data" THEN data ELSE <<>>

AfterLeagueEntries(w) ==
    /\ Settled(w, "await_entries")
    /\ Continue(w, IF Threw(w) THEN catchApiKeyInvalid(Frame(w))
                   ELSE afterLeagueEntries(Frame(w),
                            ListOf(w, RemoteEntries(w, rq[w].url.key, rq[w].url.start))))

AfterDetectHistory(w) ==
    /\ Settled(w, "await_detect_history")
    /\ Continue(w, IF Threw(w) THEN catchApiKeyInvalid(Frame(w))
                   ELSE afterDetectHistory(Frame(w), ListOf(w, RemoteHistory(rq[w].url))))

AfterDetectDetails(w) ==
    /\ Settled(w, "await_detect_details")
    /\ Continue(w, IF Threw(w) THEN catchApiKeyInvalid(Frame(w))
                   ELSE afterDetectDetails(Frame(w), rq[w].result = "data",
                                           RemoteMatch(rq[w].url.key)))

AfterBoundaryHistory(w) ==
    /\ Settled(w, "await_boundary_history")
    /\ Continue(w, IF Threw(w) THEN catchApiKeyInvalid(Frame(w))
                   ELSE afterBoundaryHistory(Frame(w), ListOf(w, RemoteHistory(rq[w].url))))

AfterBoundaryDetails(w) ==
    /\ Settled(w, "await_boundary_details")
    /\ Continue(w, IF Threw(w) THEN catchApiKeyInvalid(Frame(w))
                   ELSE afterBoundaryDetails(Frame(w), rq[w].result = "data",
                                             RemoteMatch(rq[w].url.key)))

AfterMatchHistory(w) ==
    /\ Settled(w, "await_history")
    /\ Continue(w, IF Threw(w) THEN catchApiKeyInvalid(Frame(w))
                   ELSE afterMatchHistory(Frame(w), ListOf(w, RemoteHistory(rq[w].url))))

AfterMatchDetails(w) ==
    /\ Settled(w, "await_details")
    /\ Continue(w, IF Threw(w) THEN catchApiKeyInvalid(Frame(w))
                   ELSE afterMatchDetails(Frame(w), rq[w].result = "data",
                                          RemoteMatch(rq[w].url.key)))

\* The timer p sleeps on runs out.
Elapse(p) ==
    /\ rq[p].wait > 0
    /\ rq' = [rq EXCEPT ![p].wait = 0]
    /\ UNCHANGED <<clock, apiKeyValid, apiKeyInvalidSince, requestTimestamps>>
    /\ UNCHANGED scraperVars
    /\ Observe

(***************************************************************************)
(* One worker from its construction on an empty database, with the health  *)
(* check.                                                                  *)
(***************************************************************************)
TargetPatchConfigs == {NoPatch, <<14, 10>>}

InitScraper ==
    /\ targetPatchConfig \in TargetPatchConfigs
    /\ matches = <<>>
    /\ players = <<>>
    /\ scrape_state = [r \in Workers |-> NoDate]
    /\ wk = [w \in Workers |-> NewWorker(w)]
    /\ fetched = [w \in Workers |-> <<>>]
    /\ saveCalls = [m \in MatchIds |-> 0]
    /\ journal = [w \in Workers |-> NoJournal]

Init ==
    /\ InitApi
    /\ InitScraper
    /\ observed = "none"

WorkerStep(w) ==
    \/ Start(w)
    \/ Stop(w)
    \/ WakeUp(w)
    \/ AfterLeagueEntries(w)
    \/ AfterDetectHistory(w)
    \/ AfterDetectDetails(w)
    \/ AfterBoundaryHistory(w)
    \/ AfterBoundaryDetails(w)
    \/ AfterMatchHistory(w)
    \/ AfterMatchDetails(w)

NetworkStep(p) ==
    \/ AttemptStep(p)
    \/ Elapse(p)

Next ==
    \/ WorkerStep(FirstWorker)
    \/ NetworkStep(FirstWorker)
    \/ ProbeStep

Spec == Init /\ [][Next]_vars

\* The same, every continuation of the worker that is ready being run and
\* every timer firing (the event loop), and every client.get settling (it
\* has a timeout).
Proceed(w) ==
    \/ WakeUp(w)
    \/ AfterLeagueEntries(w)
    \/ AfterDetectHistory(w)
    \/ AfterDetectDetails(w)
    \/ AfterBoundaryHistory(w)
    \/ AfterBoundaryDetails(w)
    \/ AfterMatchHistory(w)
    \/ AfterMatchDetails(w)

SpecLive ==
    /\ Init /\ [][Next]_vars
    /\ WF_vars(Proceed(FirstWorker))
    /\ WF_vars(NetworkStep(FirstWorker))

(***************************************************************************)
(* The workers of two regions side by side, on a database an earlier run   *)
(* has left: a roster for each region and a stored match of the configured *)
(* target patch, so that the first round goes straight to the players.     *)
(* No stop signal arrives, and the remote API answers with one status for  *)
(* each result of request(): data, null, ApiKeyInvalidError.               *)
(***************************************************************************)
StoredMatch ==
    [match_id |-> "M0", patch |-> <<14, 10>>,
     data |-> [gameVersion |-> <<14, 10, 1, 1>>, queueId |-> 420,
               gameDuration |-> 1800, gameCreation |-> 5500]]

WorkersStatuses == {200, 404, 401}

InitWorkers ==
    /\ InitApi
    /\ targetPatchConfig = <<14, 10>>
    /\ matches = <<StoredMatch>>
    /\ players = <<[puuid |-> "P1", region |-> "na1", match_offset |-> 0],
                   [puuid |-> "P2", region |-> "euw1", match_offset |-> 0]>>
    /\ scrape_state = [r \in Workers |-> NoDate]
    /\ wk = [w \in Workers |-> NewWorker(w)]
    /\ fetched = [w \in Workers |-> <<>>]
    /\ saveCalls = [m \in MatchIds |-> IF m = StoredMatch.match_id THEN 1 ELSE 0]
    /\ journal = [w \in Workers |-> NoJournal]
    /\ observed = "none"

WorkersStep(w) ==
    \/ Start(w)
    \/ WakeUp(w)
    \/ AfterMatchHistory(w)
    \/ AfterMatchDetails(w)

NextWorkers ==
    \/ \E w \in Workers : WorkersStep(w)
    \/ \E w \in Workers : \E status \in WorkersStatuses : Respond(w, status, NoHeader)
    \/ HealthCheckProbe
    \/ \E status \in WorkersStatuses : ProbeRespond(status)
    \/ HealthCheckDone

SpecWorkers == InitWorkers /\ [][NextWorkers]_vars

(***************************************************************************)
(* Patch targeting and boundary discovery in the first round of a worker,  *)
(* on a database in which an earlier run has left a roster and no match.   *)
(* The remote API answers every call with data or with a 404.              *)
(***************************************************************************)
Rosters ==
    {<<"P3">>, <<"P5">>, <<"P3", "P1">>, <<"P3", "P4">>, <<"P6", "P4">>,
     <<"P1", "P2", "P3", "P4", "P5", "P6">>}

\* the rows of players for these players of a region, none scraped yet
StoredRoster(region, puuids) ==
    [i \in 1..Len(puuids) |-> [puuid |-> puuids[i], region |-> region, match_offset |-> 0]]

PatchStatuses == {200, 404}

InitPatch ==
    /\ InitApi
    /\ targetPatchConfig \in TargetPatchConfigs
    /\ matches = <<>>
    /\ players \in {StoredRoster(FirstWorker, r) : r \in Rosters}
    /\ scrape_state = [r \in Workers |-> NoDate]
    /\ wk = [w \in Workers |-> NewWorker(w)]
    /\ fetched = [w \in Workers |-> <<>>]
    /\ saveCalls = [m \in MatchIds |-> 0]
    /\ journal = [w \in Workers |-> NoJournal]
    /\ observed = "none"

NextPatch ==
    \/ Start(FirstWorker)
    \/ AfterDetectHistory(FirstWorker)
    \/ AfterDetectDetails(FirstWorker)
    \/ AfterBoundaryHistory(FirstWorker)
    \/ AfterBoundaryDetails(FirstWorker)
    \/ \E status \in PatchStatuses : Respond(FirstWorker, status, NoHeader)

SpecPatch == InitPatch /\ [][NextPatch]_vars

(***************************************************************************)
(* The rounds of a worker that is never stopped, on a database in which an *)
(* earlier run has left a roster and a match of the configured target      *)
(* patch.  The remote API answers every call with data or with a 404, so   *)
(* the key stays valid.  Every continuation that is ready is run, every    *)
(* timer fires and every call settles (client.get has a timeout).          *)
(***************************************************************************)
RoundsRosters == {<<"P1">>, <<"P1", "P2">>}

InitRounds ==
    /\ InitApi
    /\ targetPatchConfig = <<14, 10>>
    /\ matches = <<StoredMatch>>
    /\ players \in {StoredRoster(FirstWorker, r) : r \in RoundsRosters}
    /\ scrape_state = [r \in Workers |-> NoDate]
    /\ wk = [w \in Workers |-> NewWorker(w)]
    /\ fetched = [w \in Workers |-> <<>>]
    /\ saveCalls = [m \in MatchIds |-> IF m = StoredMatch.match_id THEN 1 ELSE 0]
    /\ journal = [w \in Workers |-> NoJournal]
    /\ observed = "none"

NextRounds ==
    \/ Start(FirstWorker)
    \/ WakeUp(FirstWorker)
    \/ AfterMatchHistory(FirstWorker)
    \/ AfterMatchDetails(FirstWorker)
    \/ \E status \in PatchStatuses : Respond(FirstWorker, status, NoHeader)

SpecRounds == InitRounds /\ [][NextRounds]_vars /\ WF_vars(NextRounds)

(***************************************************************************)
(* The run loop of one worker from start() to its end, with the health     *)
(* check, on a database in which an earlier run has left a roster and no   *)
(* match.  The rosters hold player P7, whose most recent match comes back  *)
(* as a body without info.  The remote API answers with one status for     *)
(* each result of request(): data, null, ApiKeyInvalidError.               *)
(***************************************************************************)
LoopRosters == {<<"P7">>, <<"P1", "P7">>}

InitLoop ==
    /\ InitApi
    /\ targetPatchConfig \in TargetPatchConfigs
    /\ matches = <<>>
    /\ players \in {StoredRoster(FirstWorker, r) : r \in LoopRosters}
    /\ scrape_state = [r \in Workers |-> NoDate]
    /\ wk = [w \in Workers |-> NewWorker(w)]
    /\ fetched = [w \in Workers |-> <<>>]
    /\ saveCalls = [m \in MatchIds |-> 0]
    /\ journal = [w \in Workers |-> NoJournal]
    /\ observed = "none"

NextLoop ==
    \/ Start(FirstWorker)
    \/ Stop(FirstWorker)
    \/ WakeUp(FirstWorker)
    \/ AfterDetectHistory(FirstWorker)
    \/ AfterDetectDetails(FirstWorker)
    \/ AfterBoundaryHistory(FirstWorker)
    \/ AfterBoundaryDetails(FirstWorker)
    \/ AfterMatchHistory(FirstWorker)
    \/ AfterMatchDetails(FirstWorker)
    \/ \E status \in WorkersStatuses : Respond(FirstWorker, status, NoHeader)
    \/ HealthCheckProbe
    \/ \E status \in WorkersStatuses : ProbeRespond(status)
    \/ HealthCheckDone

SpecLoop == InitLoop /\ [][NextLoop]_vars

(***************************************************************************)
(* The API client on its own: a caller that issues request() calls one     *)
(* after the other.                                                        *)
(***************************************************************************)
ClientUrls == {DetailsUrl("M1")}

Call(p) ==
    \E url \in ClientUrls : StartCall(p, "request", url)

Return(p) ==
    /\ rq[p].pc = "done"
    /\ rq' = [rq EXCEPT ![p] = IdleRq]
    /\ UNCHANGED <<clock, apiKeyValid, apiKeyInvalidSince, requestTimestamps>>
    /\ UNCHANGED scraperVars
    /\ Observe

RequestStep(p) ==
    \/ RateLimitAfterSustained(p)
    \/ RateLimitAfterBurst(p)
    \/ AttemptStep(p)

\* the same caller, the rate limiter left out
CallUnlimited(p) ==
    \E url \in ClientUrls : StartRequest(p, url)

\* All workers' calls and the health check, under every interleaving, the
\* rate limiter left out.
InitClients ==
    /\ InitApi
    /\ InitScraper
    /\ targetPatchConfig = NoPatch
    /\ observed = "none"

NextClients ==
    \/ TickClients
    \/ \E p \in Workers : CallUnlimited(p) \/ AttemptStep(p) \/ Return(p)
    \/ ProbeStep

SpecClients == InitClients /\ [][NextClients]_vars

\* The same, the continuation of the interval callback being run once
\* checkFn() has resolved (the event loop runs every continuation that is
\* ready).
SpecHealthCheck == InitClients /\ [][NextClients]_vars /\ WF_vars(HealthCheckDone)

(***************************************************************************)
(* The client of workers[0], which the health check probes with: the calls *)
(* of workers[0], answered with data, those of the health check with their *)
(* rate limiting, and another worker whose calls are answered with a 401.  *)
(***************************************************************************)
SecondWorker == "euw1"

\* The interval timer fires while the key is invalid: testApiKey() is called
\* on the client of workers[0], and begins with its rateLimit().
HealthCheckTick ==
    /\ ~apiKeyValid
    /\ StartCall(HealthCheck, "testApiKey", StatusUrl)

TickShared == TickTo(MaxClockShared)

ProbeStatuses == {200, 401}

NextSharedClient ==
    \/ TickShared
    \/ Call(FirstWorker)
    \/ RateLimitAfterSustained(FirstWorker)
    \/ RateLimitAfterBurst(FirstWorker)
    \/ Respond(FirstWorker, 200, NoHeader)
    \/ Return(FirstWorker)
    \/ CallUnlimited(SecondWorker)
    \/ Respond(SecondWorker, 401, NoHeader)
    \/ Return(SecondWorker)
    \/ HealthCheckTick
    \/ RateLimitAfterSustained(HealthCheck)
    \/ RateLimitAfterBurst(HealthCheck)
    \/ \E status \in ProbeStatuses : ProbeRespond(status)
    \/ HealthCheckDone

SpecSharedClient == InitClients /\ [][NextSharedClient]_vars

\* The single sequential caller of one client: a worker other than
\* workers[0], whose client the health check shares.
InitOneClient ==
    /\ InitApi
    /\ InitScraper
    /\ targetPatchConfig = NoPatch
    /\ observed = Observed

NextOneClient ==
    \/ Tick
    \/ Call(Observed)
    \/ RequestStep(Observed)
    \/ Return(Observed)

SpecOneClient == InitOneClient /\ [][NextOneClient]_vars

(***************************************************************************)
(* Properties of the API client and of the key status                      *)
(***************************************************************************)
\* client.get of p's request() call settles with status s in this step.
Received(p, s) ==
    /\ rq[p].pc = "net"
    /\ rq[p].fn = "request"
    /\ rq'[p] # rq[p]
    /\ rq'[p].status = s

\* C3: a 401 sets valid = false and records invalidSince only if the state
\* was valid, a 401 while already invalid leaves invalidSince unchanged, a
\* successful response sets valid = true and clears invalidSince; in every
\* reachable state valid holds exactly when invalidSince is null.
C3_CredentialBreaker ==
    /\ [](apiKeyValid <=> apiKeyInvalidSince = NoDate)
    /\ [][\A p \in Workers :
            /\ (Received(p, 401) /\ apiKeyValid)
                 => (~apiKeyValid' /\ apiKeyInvalidSince' = clock)
            /\ (Received(p, 401) /\ ~apiKeyValid)
                 => (~apiKeyValid' /\ apiKeyInvalidSince' = apiKeyInvalidSince)
            /\ Received(p, 200)
                 => (apiKeyValid' /\ apiKeyInvalidSince' = NoDate)]_vars

\* Both workers' calls ended on a 401, and the key was marked invalid
\* before the present moment.
C3_Witness ==
    /\ ~apiKeyValid
    /\ apiKeyInvalidSince < clock
    /\ \A p \in Workers : rq[p].pc = "done" /\ rq[p].status = 401

\* C4: no request() call records a timestamp or issues a network attempt
\* while the key status is invalid (every client.get of request() is issued,
\* and every timestamp pushed, in a step that moves the call to "net").
C4_NoAttemptWhileInvalid ==
    [][\A p \in Workers :
         (rq[p].pc # "net" /\ rq'[p].pc = "net") => apiKeyValid]_vars

\* C5: the (k + burstLimit)-th recorded timestamp is at least burstWindowMs
\* later than the k-th.
C5_BurstLimit ==
    \A k \in 1..Len(recorded) :
        k + burstLimit <= Len(recorded)
            => recorded[k + burstLimit] - recorded[k] >= burstWindowMs

\* burstLimit calls at the same instant, and one more recorded after them.
C5_Witness ==
    /\ Len(recorded) > burstLimit
    /\ recorded[burstLimit] = recorded[1]

\* C6: the (k + sustainedLimit)-th recorded timestamp is at least
\* sustainedWindowMs later than the k-th.
C6_SustainedLimit ==
    \A k \in 1..Len(recorded) :
        k + sustainedLimit <= Len(recorded)
            => recorded[k + sustainedLimit] - recorded[k] >= sustainedWindowMs

\* sustainedLimit calls inside one window, and one more recorded after them.
C6_Witness ==
    /\ Len(recorded) > sustainedLimit
    /\ recorded[sustainedLimit] - recorded[1] < sustainedWindowMs

\* C7: a 429 does not consume the retry budget: a call that has received
\* nothing but 429 responses is retried, it does not return null.
C7_RateLimitedNotCounted ==
    (rq[Observed].pc = "done" /\ rq[Observed].result = "null")
        => \E i \in 1..Len(responses) : responses[i] # 429

\* C8: when every attempt fails with a network error or a status other than
\* 401, 403, 404 and 429, the call makes exactly 3 attempts, waits 1 s after
\* the first failure and 2 s after the second, none after the last, returns
\* null without throwing, and leaves the key status unchanged.
TransientStatuses == Statuses \ {200, 401, 403, 404, 429}

AllTransient(log) ==
    /\ Len(log) > 0
    /\ \A i \in 1..Len(log) : log[i] \in TransientStatuses

C8_RetryBudget ==
    [][AllTransient(responses') =>
         LET r == rq'[Observed]
             n == Len(responses')
         IN /\ n <= 3
            /\ r.pc \in {"backoff", "net", "done"}
            /\ r.pc = "backoff" => (n < 3 /\ r.wait <= n * SecondMs)
            /\ r.pc = "net" => (n < 3 /\ r.attempt = n)
            /\ r.pc = "done" => (n = 3 /\ r.result = "null")
            /\ responses' # responses =>
                 /\ r.pc = IF n = 3 THEN "done" ELSE "backoff"
                 /\ r.wait = IF n = 3 THEN 0 ELSE n * SecondMs
                 /\ UNCHANGED <<apiKeyValid, apiKeyInvalidSince>>]_vars

\* A call has returned null after three transient failures.
C8_Witness ==
    /\ rq[Observed].pc = "done"
    /\ rq[Observed].result = "null"
    /\ Len(responses) = 3
    /\ AllTransient(responses)

\* C9: a 403 or a 404 makes request() return null at once and leaves the key
\* status unchanged; the only response that moves the status from valid to
\* invalid is a 401.
C9_ForbiddenNotFound ==
    [][/\ \A p \in Workers : \A s \in {403, 404} :
            Received(p, s) =>
                /\ rq'[p].pc = "done"
                /\ rq'[p].result = "null"
                /\ UNCHANGED <<apiKeyValid, apiKeyInvalidSince>>
       /\ (apiKeyValid /\ ~apiKeyValid') => \E p \in Workers : Received(p, 401)]_vars

\* One worker's call returned null on a 403 and the other's on a 404, with
\* the key still valid.
C9_Witness ==
    /\ apiKeyValid
    /\ \E p, q \in Workers :
         /\ rq[p].pc = "done" /\ rq[p].status = 403 /\ rq[p].result = "null"
         /\ rq[q].pc = "done" /\ rq[q].status = 404 /\ rq[q].result = "null"

\* C14: the interval callback calls the probe only if the key status is
\* invalid at that tick; when the probe has returned true the status becomes
\* valid with invalidSince cleared, when it has returned false the status is
\* left as it is; and once the probe has returned true, the status is
\* eventually valid.
C14_HealthCheck ==
    /\ [][(rq[HealthCheck].pc = "idle" /\ rq'[HealthCheck].pc # "idle")
            => ~apiKeyValid]_vars
    /\ [][(rq[HealthCheck].pc = "done" /\ rq'[HealthCheck].pc = "idle") =>
            IF rq[HealthCheck].result = "true"
              THEN apiKeyValid' /\ apiKeyInvalidSince' = NoDate
              ELSE UNCHANGED <<apiKeyValid, apiKeyInvalidSince>>]_vars
    /\ ((rq[HealthCheck].pc = "done" /\ rq[HealthCheck].result = "true") ~> apiKeyValid)

\* The key has been invalid for some time and the probe has just returned
\* true.
C14_Witness ==
    /\ ~apiKeyValid
    /\ apiKeyInvalidSince < clock
    /\ rq[HealthCheck].pc = "done"
    /\ rq[HealthCheck].result = "true"

\* C16: every client.get of request(), the first and every retry after a
\* failure or a 429 wait, comes after a pass of its own through rateLimit():
\* the step that issues it records the timestamp of that moment.
C16_EveryAttemptRateLimited ==
    [][(/\ rq'[Observed].pc = "net"
        /\ (rq[Observed].pc # "net" \/ rq'[Observed].attempt # rq[Observed].attempt))
          => recorded' = Append(recorded, clock)]_vars

\* p is inside rateLimit(), at one of its two sleeps
InRateLimit(p) == rq[p].pc \in {"rl_sustained", "rl_burst"}

\* C17: at no time are two callers inside rateLimit() of the same client,
\* whatever the workers and the health check do.
C17_OneStreamPerClient ==
    \A p, q \in Callers :
        (p # q /\ Client(p) = Client(q)) => ~(InRateLimit(p) /\ InRateLimit(q))

(***************************************************************************)
(* Properties of the workers and of what they store                        *)
(***************************************************************************)
\* the rows of matches that have this identifier
RecordsOf(matchId) == {i \in 1..Len(matches) : matches[i].match_id = matchId}

\* C1: whatever the workers of the two regions do side by side, the table
\* matches holds exactly one row for every match identifier that saveMatch
\* was ever called with.
C1_OneRecordPerMatch ==
    \A m \in MatchIds : saveCalls[m] > 0 => Cardinality(RecordsOf(m)) = 1

\* Both workers found M1 missing and called saveMatch with it.
C1_Witness ==
    /\ saveCalls["M1"] = 2
    /\ Cardinality(RecordsOf("M1")) = 1

\* C15: saveMatch returns true exactly when the call added a row, and false
\* when a row with that identifier was already stored.
C15_ReturnsWhetherInserted ==
    \A w \in Workers :
        journal[w].saved.matchId # ""
            => (journal[w].saved.returned <=> journal[w].saved.added)

\* the offset stored for a player of a region
StoredOffset(puuid, region) ==
    LET i == CHOOSE i \in 1..Len(players) :
                players[i].puuid = puuid /\ players[i].region = region
    IN players[i].match_offset

\* no stored offset decreases, no row of players goes away
OffsetsNeverDecrease ==
    [][\A i \in 1..Len(players) :
          /\ i <= Len(players')
          /\ players'[i].puuid = players[i].puuid
          /\ players'[i].region = players[i].region
          /\ players'[i].match_offset >= players[i].match_offset]_vars

\* scrapeRound is over: start() sleeps, or has returned
RoundOver(w) == wk[w].pc \in {"sleep", "stopped"}

\* C2 as stated: no stored offset decreases, and every round in which the
\* match-history fetch of a player returned k identifiers has moved the
\* player's offset from its value o at the start of the round to o + k.
C2_OffsetAdvance ==
    /\ OffsetsNeverDecrease
    /\ [](\A w \in Workers : RoundOver(w) =>
            \A n \in 1..Len(fetched[w]) :
                StoredOffset(fetched[w][n].puuid, w)
                    = fetched[w][n].offset + fetched[w][n].count)

\* C2 amended: no stored offset decreases, and every round in which the
\* match-history fetch of a player returned k identifiers has moved the
\* player's offset from o to o + k if it went through the page to its end
\* (whatever was skipped, filtered out or saved, and also when a stop cut
\* the page short), and has left it at o if an ApiKeyInvalidError ended the
\* round inside that page.
C2_OffsetAdvanceUnlessAborted ==
    /\ OffsetsNeverDecrease
    /\ [](\A w \in Workers : RoundOver(w) =>
            \A n \in 1..Len(fetched[w]) :
                StoredOffset(fetched[w][n].puuid, w)
                    = IF fetched[w][n].aborted
                        THEN fetched[w][n].offset
                        ELSE fetched[w][n].offset + fetched[w][n].count)

\* A round is over in which the first player's page of two identifiers, one
\* saved and one filtered out, was gone through, and the second player's
\* page was cut by an ApiKeyInvalidError.
C2_Witness ==
    /\ RoundOver(FirstWorker)
    /\ Len(fetched[FirstWorker]) = 2
    /\ fetched[FirstWorker][1].outcomes = <<"saved", "invalid">>
    /\ ~fetched[FirstWorker][1].aborted
    /\ fetched[FirstWorker][2].count > 0
    /\ fetched[FirstWorker][2].aborted

\* C10: no stored match has a queue outside validQueueIds or a duration
\* below minGameDurationSeconds, whatever its patch and the target patch.
C10_OnlyValidMatchesStored ==
    \A i \in 1..Len(matches) :
        /\ matches[i].data.queueId \in validQueueIds
        /\ matches[i].data.gameDuration >= minGameDurationSeconds

\* With no target patch, a worker has stored matches of two patches and has
\* fetched and filtered out a match that is too short.
C10_Witness ==
    /\ wk[FirstWorker].patchBoundarySearched
    /\ wk[FirstWorker].targetPatch = NoPatch
    /\ Cardinality({matches[i].patch : i \in 1..Len(matches)}) = 2
    /\ \E n \in 1..Len(fetched[FirstWorker]) :
          /\ fetched[FirstWorker][n].offset = matchHistoryCount
          /\ fetched[FirstWorker][n].outcomes = <<"invalid">>

(***************************************************************************)
(* Properties of patch targeting                                           *)
(***************************************************************************)
\* a >= b on (major, minor) pairs, as numbers
NumericGE(a, b) == a[1] > b[1] \/ (a[1] = b[1] /\ a[2] >= b[2])

\* a < b on (major, minor) pairs, as numbers
NumericLess(a, b) == ~NumericGE(a, b)

\* the players detectLatestPatch may sample: the first five of the roster
SampledPlayers(w) ==
    LET roster == getPlayersByRegion(players, w)
    IN {roster[k].puuid : k \in {k \in 1..Len(roster) : k <= 5}}

\* the version of the most recent match of a player who has one
MostRecentVersion(puuid) == extractPatch(RemoteMatch(RemoteMatches(puuid)[1]).gameVersion)

\* C11: the target that patch auto-detection yields is, among the versions of
\* the most recent match of each of the first (at most 5) players of the
\* roster that yielded a match, one that is greatest as a pair of numbers
\* (14.10 over 14.9); it is none exactly when no sampled player yielded a
\* version.
C11_DetectLatestPatch ==
    \A w \in Workers : journal[w].detected =>
        LET sampled == journal[w].sampled
            versions == {sampled[i].patch : i \in 1..Len(sampled)}
        IN /\ \A i \in 1..Len(sampled) :
                  /\ sampled[i].puuid \in SampledPlayers(w)
                  /\ sampled[i].patch = MostRecentVersion(sampled[i].puuid)
           /\ (wk[w].targetPatch = NoPatch) <=> (versions = {})
           /\ versions # {} =>
                  /\ wk[w].targetPatch \in versions
                  /\ \A v \in versions : NumericGE(wk[w].targetPatch, v)

\* On a roster of six players, four of the first five yielded a version,
\* 14.9 among them, and 14.10 was detected (the sixth player's most recent
\* match is on 14.11).
C11_Witness ==
    /\ journal[FirstWorker].detected
    /\ Len(getPlayersByRegion(players, FirstWorker)) = 6
    /\ Len(journal[FirstWorker].sampled) = 4
    /\ \E i \in 1..4 : journal[FirstWorker].sampled[i].patch = <<14, 9>>
    /\ wk[FirstWorker].targetPatch = <<14, 10>>

\* the timestamp, in seconds, of the i-th match scanned
ScannedTimestamp(w, i) ==
    RemoteMatch(journal[w].scanned[i].matchId).gameCreation \div msPerSecond

\* the version of the i-th match scanned
ScannedVersion(w, i) == extractPatch(RemoteMatch(journal[w].scanned[i].matchId).gameVersion)

\* the matches scanned whose detail was obtained and is of a version older
\* than the target
ScannedOlder(w) ==
    {i \in 1..Len(journal[w].scanned) :
        /\ journal[w].scanned[i].ok
        /\ NumericLess(ScannedVersion(w, i), wk[w].targetPatch)}

\* those of them whose timestamp is not below the sanity floor
ScannedOlderValid(w) == {i \in ScannedOlder(w) : ScannedTimestamp(w, i) >= minTimestamp}

\* What findPatchBoundary has to return when the scan is to stop at the first
\* of the matches `older`: the least timestamp, not below the floor, of the
\* matches of the target version scanned before it; and nothing is fetched
\* after it.
BoundaryIs(w, older) ==
    LET scanned == journal[w].scanned
        stop == IF older = {} THEN Len(scanned) + 1
                ELSE CHOOSE i \in older : \A k \in older : i <= k
        onTarget == {i \in 1..Len(scanned) :
                        /\ i < stop
                        /\ scanned[i].ok
                        /\ ScannedVersion(w, i) = wk[w].targetPatch
                        /\ ScannedTimestamp(w, i) >= minTimestamp}
    IN /\ stop >= Len(scanned)
       /\ IF onTarget = {}
            THEN journal[w].boundary = NoDate
            ELSE /\ \E i \in onTarget : journal[w].boundary = ScannedTimestamp(w, i)
                 /\ \A i \in onTarget : journal[w].boundary <= ScannedTimestamp(w, i)
       /\ journal[w].boundary # NoDate => journal[w].boundary >= minTimestamp

\* C12 as stated: findPatchBoundary, sampling the API, returns the least
\* timestamp of the target-version matches scanned before the first match of
\* an older version, fetches no match after that match, never returns a
\* timestamp below the sanity floor, and returns none when no match of the
\* target version was scanned.
C12_BoundaryStopsAtOlder ==
    \A w \in Workers : journal[w].boundaryReturned => BoundaryIs(w, ScannedOlder(w))

\* C12 amended: the match that stops the scan is the first match of an older
\* version whose timestamp is not below the sanity floor (a match below the
\* floor is passed over before its version is looked at).
C12_BoundaryStopsAtOlderValid ==
    \A w \in Workers : journal[w].boundaryReturned => BoundaryIs(w, ScannedOlderValid(w))

\* The scan for 14.10 saw two matches of 14.10, then a 14.9 match with a
\* corrupt timestamp, and stopped at the 14.9 match after it: the boundary is
\* the timestamp of the second match.
C12_Witness ==
    /\ journal[FirstWorker].boundaryReturned
    /\ wk[FirstWorker].targetPatch = <<14, 10>>
    /\ journal[FirstWorker].scanned =
          <<[matchId |-> "M1", ok |-> TRUE], [matchId |-> "M3", ok |-> TRUE],
            [matchId |-> "M5", ok |-> TRUE], [matchId |-> "M4", ok |-> TRUE]>>
    /\ journal[FirstWorker].boundary = 7

(***************************************************************************)
(* Properties of the roster bootstrap                                      *)
(***************************************************************************)
\* the pages fetchPlayers was returned for a division before the first empty
\* page of that division
PagesBeforeEmpty(w) ==
    LET entries == journal[w].entries
    IN {i \in 1..Len(entries) :
           ~\E k \in 1..i : /\ entries[k].division = entries[i].division
                            /\ Len(entries[k].entries) = 0}

\* the player identifiers in these pages
ReturnedPlayers(w) ==
    UNION {{journal[w].entries[i].entries[k] : k \in 1..Len(journal[w].entries[i].entries)} :
              i \in PagesBeforeEmpty(w)}

\* C13: when fetchPlayers, begun with no player of the region, has completed,
\* the stored players of the region are exactly the distinct identifiers of
\* the pages returned for each division before its first empty page, one
\* row each, and while the bootstrap runs no row already stored is changed.
C13_RosterBootstrap ==
    /\ [](\A w \in Workers : journal[w].entriesDone =>
            LET roster == getPlayersByRegion(players, w)
            IN /\ {roster[k].puuid : k \in 1..Len(roster)} = ReturnedPlayers(w)
               /\ Len(roster) = Cardinality(ReturnedPlayers(w)))
    /\ [][\A w \in Workers : wk[w].pc = "await_entries" =>
            \A i \in 1..Len(players) : i <= Len(players') /\ players'[i] = players[i]]_vars

\* The bootstrap has completed on two divisions of one page each, with two
\* entries and one entry, one player being in both: two players are stored.
C13_Witness ==
    /\ journal[FirstWorker].entriesDone
    /\ Len(journal[FirstWorker].entries) = 4
    /\ journal[FirstWorker].entries[1].entries = <<"P1", "P2">>
    /\ journal[FirstWorker].entries[3].entries = <<"P1">>
    /\ Len(getPlayersByRegion(players, FirstWorker)) = 2

(***************************************************************************)
(* Properties of the rounds                                                *)
(***************************************************************************)
\* the round has fetched a page for every player of the roster, in order
FetchedAll(w) ==
    LET roster == getPlayersByRegion(players, w)
    IN /\ Len(fetched[w]) = Len(roster)
       /\ \A n \in 1..Len(roster) : fetched[w][n].puuid = roster[n].puuid

\* the last round of a worker that has not been stopped got to the loop over
\* the players, and is over
RoundDone(w, ends) ==
    /\ RoundOver(w)
    /\ wk[w].running
    /\ journal[w].roundEnded \in ends
    /\ Len(getPlayersByRegion(players, w)) > 0

\* the round went over every player and stored the number of matches
RoundComplete(w) ==
    /\ FetchedAll(w)
    /\ scrape_state[w] = getMatchCount(matches)

\* C18 as stated: no failure of a match-history or match-detail fetch, of any
\* class, ends the round early: every round that got to the loop over the
\* players has gone over every player and stored the aggregate counter.
C18_NoFetchFailureEndsRound ==
    \A w \in Workers : RoundDone(w, {"returned", "threwInPlayers"}) => RoundComplete(w)

\* C18 amended: a fetch that yields no data (not found, ambiguous, retry
\* budget exhausted, also after 429s) does not end the round: every round not
\* ended by the credential-invalid error has gone over every player and
\* stored the aggregate counter.
C18_OnlyCredentialInvalidEndsRound ==
    \A w \in Workers : RoundDone(w, {"returned"}) => RoundComplete(w)

\* A round is over in which the match-history fetch of the first player
\* failed and a match-detail fetch of the second player yielded no data.
C18_Witness ==
    /\ RoundDone(FirstWorker, {"returned"})
    /\ Len(fetched[FirstWorker]) = 2
    /\ fetched[FirstWorker][1].offset = 0
    /\ fetched[FirstWorker][1].count = 0
    /\ \E j \in 1..Len(fetched[FirstWorker][2].outcomes) :
          fetched[FirstWorker][2].outcomes[j] = "noData"

\* the detail fetch of this match, in this player's page, yielded no data in
\* the current round of w
Skipped(w, puuid, matchId) ==
    \E n \in 1..Len(fetched[w]) :
        /\ fetched[w][n].puuid = puuid
        /\ \E j \in 1..Len(fetched[w][n].outcomes) :
              /\ fetched[w][n].outcomes[j] = "noData"
              /\ fetched[w][n].ids[j] = matchId

\* w is waiting for the detail of this match, in this player's page
Requested(w, puuid, matchId) ==
    /\ wk[w].pc = "await_details"
    /\ wk[w].local.url.key = matchId
    /\ wk[w].local.players[wk[w].local.i].puuid = puuid

\* C19: a match identifier of a player's page that was skipped because its
\* detail fetch yielded no data is requested again for that player later,
\* unless the worker is stopped or the key is invalid.
C19_SkippedIsRevisited ==
    \A puuid \in {"P1", "P2"} :
      \A matchId \in {RemoteMatches(puuid)[j] : j \in 1..Len(RemoteMatches(puuid))} :
        Skipped(FirstWorker, puuid, matchId)
            ~> (\/ Requested(FirstWorker, puuid, matchId)
                \/ ~wk[FirstWorker].running
                \/ ~apiKeyValid)

\* the awaits of detectLatestPatch and findPatchBoundary
PatchAwaitPcs ==
    {"await_detect_history", "await_detect_details",
     "await_boundary_history", "await_boundary_details"}

\* C20: a worker begins patch targeting and boundary discovery at most once:
\* once a round has begun it no later round begins it again, and once it
\* has run the target patch and the boundary timestamp never change.
C20_PatchTargetingOnce ==
    [][\A w \in Workers :
          /\ ~(journal[w].patchBegun /\ wk[w].pc = "sleep" /\ wk'[w].pc \in PatchAwaitPcs)
          /\ wk[w].patchBoundarySearched =>
                /\ wk'[w].targetPatch = wk[w].targetPatch
                /\ wk'[w].patchStartTimestamp = wk[w].patchStartTimestamp]_vars

(***************************************************************************)
(* Properties of the run loop                                              *)
(***************************************************************************)
\* w is in the sleep of a catch block of start()
SleepsAfterCatch(w) == wk[w].pc = "sleep" /\ journal[w].caught # "none"

\* C22: start() never throws, and returns only once the worker is not
\* running; an exception thrown inside a round is caught and followed by a
\* sleep, of API_KEY_CHECK_INTERVAL for an ApiKeyInvalidError and of
\* errorPauseMs for anything else, after which the while test is made again:
\* start() returns if the worker was stopped, and goes on otherwise.
C22_LoopSurvivesExceptions ==
    /\ [](\A w \in Workers :
            /\ wk[w].pc # "rejected"
            /\ wk[w].pc = "stopped" => ~wk[w].running
            /\ journal[w].roundEnded \in {"threwBefore", "threwInPlayers", "threwError"}
                  => wk[w].pc \in {"sleep", "stopped"}
            /\ SleepsAfterCatch(w) =>
                  wk[w].sleepMs = IF journal[w].caught = "ApiKeyInvalidError"
                                    THEN API_KEY_CHECK_INTERVAL
                                    ELSE errorPauseMs)
    /\ [][\A w \in Workers :
            SleepsAfterCatch(w) /\ wk'[w].pc # "sleep" =>
                (wk'[w].pc = "stopped") = ~wk[w].running]_vars

\* A round threw the TypeError of a body without info in the page of the
\* second player: the worker, not stopped, sleeps errorPauseMs.
C22_Witness ==
    /\ SleepsAfterCatch(FirstWorker)
    /\ journal[FirstWorker].caught = "Error"
    /\ journal[FirstWorker].roundEnded = "threwError"
    /\ wk[FirstWorker].sleepMs = errorPauseMs
    /\ wk[FirstWorker].running
    /\ wk[FirstWorker].patchBoundarySearched
    /\ Len(fetched[FirstWorker]) = 2

\* w sleeps because the key is invalid: in the pause at the top of the loop
\* body, or in the catch block for an ApiKeyInvalidError
Paused(w) == wk[w].pc = "sleep" /\ wk[w].sleepMs = API_KEY_CHECK_INTERVAL

\* w is in a round, waiting for a call it has made
InRound(w) == wk[w].pc \in AwaitRequestPcs

\* C23: a worker that wakes up while the key is invalid makes no call: it
\* sleeps API_KEY_CHECK_INTERVAL again, or returns if it was stopped; and if
\* from some moment on the key is valid for good, a paused worker that is not
\* stopped gets to a call of a new round.
C23_PauseAndResume ==
    /\ [][\A w \in Workers :
            wk[w].pc = "sleep" /\ ~apiKeyValid /\ wk'[w] # wk[w] /\ wk'[w].running
                => Paused(w)']_vars
    /\ <>[]apiKeyValid =>
          \A w \in Workers : [](Paused(w) => <>(InRound(w) \/ ~wk[w].running))

\* The worker, not stopped, is in the first call of the loop over the players
\* of a new round, the key being valid, after a round that stored a match and
\* was ended inside the page of that match by an ApiKeyInvalidError (no
\* offset was advanced).
C23_Witness ==
    /\ InRound(FirstWorker)
    /\ apiKeyValid
    /\ wk[FirstWorker].running
    /\ wk[FirstWorker].pc = "await_history"
    /\ fetched[FirstWorker] = <<>>
    /\ Len(matches) > 0
    /\ \A i \in 1..Len(players) : players[i].match_offset = 0

\* C26: once stop() was called, start() returns, wherever the worker was.
C26_StopTerminates ==
    \A w \in Workers :
        (wk[w].pc # "init" /\ ~wk[w].running) ~> (wk[w].pc = "stopped")

\* start() has returned after a stop() that cut the page of a player short.
C26_Witness ==
    /\ wk[FirstWorker].pc = "stopped"
    /\ journal[FirstWorker].roundEnded = "returned"
    /\ Len(fetched[FirstWorker]) > 0
    /\ Len(fetched[FirstWorker][1].outcomes) < fetched[FirstWorker][1].count

\* w begins a call of the remote API in this step
BeginsCall(w) ==
    /\ wk'[w].pc \in AwaitRequestPcs
    /\ wk[w].pc \notin AwaitRequestPcs \/ rq[w].pc = "done"

\* C24: once stop() was called, the worker begins no call of the remote API,
\* in whichever phase it is: the call in flight is its last.
C24_NoCallAfterStop ==
    [][\A w \in Workers :
          wk[w].pc # "init" /\ ~wk[w].running => ~BeginsCall(w)]_vars

\* the rows of matches that workers other than w have added
PersistedByOthers(w) == UNION {journal[v].persisted : v \in Workers \ {w}}

\* C25: the counter stored for the region of a worker at the end of a round
\* is the number of the matches stored for that region: it counts every row
\* the worker has added, and no row that the worker of another region has
\* added.
C25_CounterOfRegion ==
    \A w \in Workers :
        RoundOver(w) /\ journal[w].roundEnded = "returned" /\ Len(fetched[w]) > 0 =>
            /\ scrape_state[w] >= Cardinality(journal[w].persisted)
            /\ scrape_state[w] + Cardinality(PersistedByOthers(w)) <= Len(matches)

\* C27: when the stored offset of a player has been advanced past a page, an
\* outcome is on record for every identifier of the page: it was found
\* stored, or its detail was fetched.
C27_AdvancedPastExamined ==
    \A w \in Workers : RoundOver(w) =>
        \A n \in 1..Len(fetched[w]) :
            /\ fetched[w][n].count > 0
            /\ StoredOffset(fetched[w][n].puuid, w) >= fetched[w][n].offset + fetched[w][n].count
            => Len(fetched[w][n].outcomes) = fetched[w][n].count

(***************************************************************************)
(* Properties of the match loop                                            *)
(***************************************************************************)
\* the identifiers of the pages of the current round of w whose outcome is
\* the given one, each with its page and its place in it
WithOutcome(w, outcome) ==
    {<<n, j>> \in (1..Len(fetched[w])) \X (1..matchHistoryCount) :
        /\ j <= Len(fetched[w][n].outcomes)
        /\ fetched[w][n].outcomes[j] = outcome}

\* the version of the match at place j of page n of the current round of w
VersionAt(w, n, j) == extractPatch(RemoteMatch(fetched[w][n].ids[j]).gameVersion)

\* C21: while the target patch of a worker is set, every match it has
\* persisted (on a database that was empty when it started: every stored
\* match) has the target as its version; a match of the current round that
\* passed the validity filter was persisted if its version is the target and
\* was otherwise counted as skipped, skippedOldPatch being the number of
\* those, also in the line the round logs at its end.
C21_OnlyTargetPatchStored ==
    \A w \in Workers : wk[w].targetPatch # NoPatch =>
        /\ \A i \in 1..Len(matches) :
              /\ matches[i].patch = wk[w].targetPatch
              /\ extractPatch(matches[i].data.gameVersion) = wk[w].targetPatch
        /\ \A p \in WithOutcome(w, "saved") : VersionAt(w, p[1], p[2]) = wk[w].targetPatch
        /\ \A p \in WithOutcome(w, "otherPatch") : VersionAt(w, p[1], p[2]) # wk[w].targetPatch
        /\ \A p \in WithOutcome(w, "otherPatch") :
              ~matchExists(matches, fetched[w][p[1]].ids[p[2]])
        /\ wk[w].pc \in {"await_history", "await_details"}
              => wk[w].local.skippedOldPatch = Cardinality(WithOutcome(w, "otherPatch"))
        /\ RoundOver(w) /\ journal[w].roundEnded = "returned"
              => journal[w].roundLog.skippedOldPatch
                    = Cardinality(WithOutcome(w, "otherPatch"))

\* With the target patch detected, a round is over that has persisted a
\* match of the target patch and has skipped a valid match of another patch.
C21_Witness ==
    /\ targetPatchConfig = NoPatch
    /\ wk[FirstWorker].targetPatch = <<14, 10>>
    /\ RoundOver(FirstWorker)
    /\ journal[FirstWorker].roundEnded = "returned"
    /\ WithOutcome(FirstWorker, "saved") # {}
    /\ WithOutcome(FirstWorker, "otherPatch") # {}
    /\ journal[FirstWorker].roundLog.skippedOldPatch = 1

====
